---- MODULE Spec2Model ----
(***************************************************************************)
(* Model of the changeset commit engine of apk-tools (src/commit.c):       *)
(* apk_solver_commit and apk_solver_commit_changeset, with the helpers     *)
(* they call.  Collaborators that live outside commit.c (the solver, the   *)
(* install primitive, script execution, the configuration writer) are      *)
(* modelled by their contract, with every outcome chosen                   *)
(* nondeterministically.                                                   *)
(***************************************************************************)
EXTENDS Integers, Sequences, FiniteSets, TLC

\* ------------------------------------------------------------------ bounds

\* Longest changeset handed to the commit engine.
MaxChanges == 2

\* Largest number of failures injected into the external collaborators
\* (install primitive, scripts, directory updates, configuration write)
\* during one commit.
MaxFaults == 1

\* ---------------------------------------------------------------- fixture

NULL == "NULL"

\* fgetc() result for end of input.
EOF == -1

\* Character codes used by names, file names and terminal answers.
ChDot == 46
ChNewline == 10
ChUpperY == 89
ChLowerY == 121

\* Package names, as strings of character codes: "a", "B", "b".
NameA == <<97>>
NameUB == <<66>>
NameLB == <<98>>

\* The packages known to the database (struct apk_package), by digest.
Pkgs == {"a2", "a3", "B1", "b1"}

PkgName == [p \in Pkgs |->
    CASE p \in {"a2", "a3"} -> NameA
      [] p = "B1" -> NameUB [] p = "b1" -> NameLB]

PkgVersion == [p \in Pkgs |->
    CASE p = "a2" -> 2 [] p = "a3" -> 3 [] p = "B1" -> 1 [] p = "b1" -> 1]

\* Divisor of the summary line: sizes are reported in MiB.
MiB == 1048576

PkgInstalledSize == [p \in Pkgs |->
    CASE p = "a2" -> 5 * MiB [] p = "a3" -> 6 * MiB
      [] p = "B1" -> 2 * MiB [] p = "b1" -> 4 * MiB]

PkgSize == [p \in Pkgs |->
    CASE p = "a2" -> 2 [] p = "a3" -> 2 [] p = "B1" -> 1 [] p = "b1" -> 3]

\* pkg->repos as the set of repository indices whose bit is set.
\* Repository 0 is the local cache, repository 1 a configured remote one.
\* B1 is in no repository any more (installed only).
PkgRepos == [p \in Pkgs |->
    CASE p = "a2" -> {0, 1} [] p = "a3" -> {1}
      [] p = "B1" -> {} [] p = "b1" -> {1}]

\* Repository tags: 0 is the default tag, 1 is configured, 2 is referenced
\* by some worlds but configured with no repository.
RepoTags == {0, 1, 2}
TagAllowedRepos == [t \in RepoTags |->
    CASE t = 0 -> {0, 1} [] t = 1 -> {1} [] t = 2 -> {}]

\* Context flags of db->ctx->flags.
APK_SIMULATE == "APK_SIMULATE"
APK_INTERACTIVE == "APK_INTERACTIVE"
APK_NO_SCRIPTS == "APK_NO_SCRIPTS"
APK_NO_COMMIT_HOOKS == "APK_NO_COMMIT_HOOKS"

PRE_COMMIT_HOOK == 0
POST_COMMIT_HOOK == 1
commit_hook_str == <<"pre-commit", "post-commit">>

\* Result of apk_pkg_version_compare.
APK_VERSION_EQUAL == "EQUAL"
APK_VERSION_LESS == "LESS"
APK_VERSION_GREATER == "GREATER"

\* ---------------------------------------------------------- pure helpers

tolower(c) == IF c >= 65 /\ c <= 90 THEN c + 32 ELSE c

RECURSIVE StrCmpFrom(_, _, _, _)
\* Comparison of two strings from position i on, fold TRUE for strcasecmp.
\* The terminating NUL compares as 0.
StrCmpFrom(s, t, i, fold) ==
    LET cs == IF i <= Len(s) THEN (IF fold THEN tolower(s[i]) ELSE s[i]) ELSE 0
        ct == IF i <= Len(t) THEN (IF fold THEN tolower(t[i]) ELSE t[i]) ELSE 0
    IN  IF cs # ct THEN cs - ct
        ELSE IF cs = 0 THEN 0
        ELSE StrCmpFrom(s, t, i + 1, fold)

strcasecmp(s, t) == StrCmpFrom(s, t, 1, TRUE)
strcmp(s, t) == StrCmpFrom(s, t, 1, FALSE)

apk_name_cmp_display(a, b) ==
    IF strcasecmp(a, b) # 0 THEN strcasecmp(a, b) ELSE strcmp(a, b)

apk_pkg_version_compare(a, b) ==
    IF PkgVersion[a] < PkgVersion[b] THEN APK_VERSION_LESS
    ELSE IF PkgVersion[a] > PkgVersion[b] THEN APK_VERSION_GREATER
    ELSE APK_VERSION_EQUAL

pkg_available(database, pkg) == (PkgRepos[pkg] \cap database.available_repos) # {}

ZeroStats == [bytes |-> 0, changes |-> 0, packages |-> 0]

\* Variant of count_change in which a pinning update is not counted as a
\* change.
count_change_pin_uncounted(change, stats) ==
    IF change.new_pkg # change.old_pkg \/ change.reinstall
    THEN [bytes |-> stats.bytes +
                    (IF change.new_pkg # NULL THEN PkgInstalledSize[change.new_pkg] ELSE 0),
          packages |-> stats.packages +
                    (IF change.new_pkg # NULL THEN 1 ELSE 0) +
                    (IF change.old_pkg # NULL THEN 1 ELSE 0),
          changes |-> stats.changes + 1]
    ELSE IF change.new_repository_tag # change.old_repository_tag
    THEN [stats EXCEPT !.packages = @ + 1]
    ELSE stats

\* count_change (lines 107-121).
count_change(change, stats) ==
    IF change.new_pkg # change.old_pkg \/ change.reinstall
    THEN [bytes |-> stats.bytes +
                    (IF change.new_pkg # NULL THEN PkgInstalledSize[change.new_pkg] ELSE 0),
          packages |-> stats.packages +
                    (IF change.new_pkg # NULL THEN 1 ELSE 0) +
                    (IF change.old_pkg # NULL THEN 1 ELSE 0),
          changes |-> stats.changes + 1]
    ELSE IF change.new_repository_tag # change.old_repository_tag
    THEN [stats EXCEPT !.packages = @ + 1, !.changes = @ + 1]
    ELSE stats

RECURSIVE calc_precision(_)
calc_precision(num) == IF num >= 10 THEN 1 + calc_precision(num \div 10) ELSE 1

\* Variant of count_iteration that assigns download_size instead of adding
\* to it.
count_iteration_assign(database, change, acc) ==
    LET withNew ==
            IF change.new_pkg # NULL
            THEN [acc EXCEPT
                    !.size_diff = @ + PkgInstalledSize[change.new_pkg],
                    !.pkg_diff = @ + 1,
                    !.download_size =
                        IF change.new_pkg # change.old_pkg
                            /\ (PkgRepos[change.new_pkg] \cap database.local_repos) = {}
                        THEN PkgSize[change.new_pkg] ELSE @]
            ELSE acc
        withOld ==
            IF change.old_pkg # NULL
            THEN [withNew EXCEPT
                    !.size_diff = @ - PkgInstalledSize[change.old_pkg],
                    !.pkg_diff = @ - 1]
            ELSE withNew
    IN  [withOld EXCEPT !.total = count_change(change, @)]

\* Variant of count_iteration that leaves a removal out of the totals.
count_iteration_removal_uncounted(database, change, acc) ==
    LET withNew ==
            IF change.new_pkg # NULL
            THEN [acc EXCEPT
                    !.size_diff = @ + PkgInstalledSize[change.new_pkg],
                    !.pkg_diff = @ + 1,
                    !.download_size = @ +
                        (IF change.new_pkg # change.old_pkg
                            /\ (PkgRepos[change.new_pkg] \cap database.local_repos) = {}
                         THEN PkgSize[change.new_pkg] ELSE 0)]
            ELSE acc
        withOld ==
            IF change.old_pkg # NULL
            THEN [withNew EXCEPT
                    !.size_diff = @ - PkgInstalledSize[change.old_pkg],
                    !.pkg_diff = @ - 1]
            ELSE withNew
    IN  IF change.new_pkg = NULL THEN withOld
        ELSE [withOld EXCEPT !.total = count_change(change, @)]

\* One iteration of the "Count what needs to be done" loop.
count_iteration(database, change, acc) ==
    LET withNew ==
            IF change.new_pkg # NULL
            THEN [acc EXCEPT
                    !.size_diff = @ + PkgInstalledSize[change.new_pkg],
                    !.pkg_diff = @ + 1,
                    !.download_size = @ +
                        (IF change.new_pkg # change.old_pkg
                            /\ (PkgRepos[change.new_pkg] \cap database.local_repos) = {}
                         THEN PkgSize[change.new_pkg] ELSE 0)]
            ELSE acc
        withOld ==
            IF change.old_pkg # NULL
            THEN [withNew EXCEPT
                    !.size_diff = @ - PkgInstalledSize[change.old_pkg],
                    !.pkg_diff = @ - 1]
            ELSE withNew
    IN  [withOld EXCEPT !.total = count_change(change, @)]

RECURSIVE count_loop(_, _, _, _)
count_loop(database, changes, k, acc) ==
    IF k > Len(changes) THEN acc
    ELSE count_loop(database, changes, k + 1, count_iteration(database, changes[k], acc))

\* Name a change is sorted by, and the name it is listed under in the diff.
sort_name(change) ==
    IF change.old_pkg # NULL THEN PkgName[change.old_pkg] ELSE PkgName[change.new_pkg]
dump_name(change) ==
    IF change.new_pkg # NULL THEN PkgName[change.new_pkg] ELSE PkgName[change.old_pkg]

sort_change(ca, cb) == apk_name_cmp_display(sort_name(ca), sort_name(cb))

RECURSIVE InsertSorted(_, _)
InsertSorted(s, c) ==
    IF s = <<>> THEN <<c>>
    ELSE IF sort_change(c, Head(s)) < 0 THEN <<c>> \o s
    ELSE <<Head(s)>> \o InsertSorted(Tail(s), c)

RECURSIVE apk_array_qsort(_)
\* The comparator is a total order on the changes of a changeset (one change
\* per name), so the sorted array is unique.
apk_array_qsort(s) ==
    IF s = <<>> THEN <<>>
    ELSE InsertSorted(apk_array_qsort(SubSeq(s, 1, Len(s) - 1)), s[Len(s)])

cmp_remove(change) == change.new_pkg = NULL
cmp_new(change) == change.old_pkg = NULL
cmp_reinstall(change) == change.reinstall
cmp_downgrade(change) ==
    IF change.new_pkg = NULL \/ change.old_pkg = NULL THEN FALSE
    ELSE apk_pkg_version_compare(change.new_pkg, change.old_pkg) = APK_VERSION_LESS
cmp_upgrade(change) ==
    IF change.new_pkg = NULL \/ change.old_pkg = NULL THEN FALSE
    ELSE /\ apk_pkg_version_compare(change.new_pkg, change.old_pkg)
                \in {APK_VERSION_GREATER, APK_VERSION_EQUAL}
         /\ change.new_pkg # change.old_pkg

\* The call cmp(change) through the function pointer dump_packages is given.
cmp_call(cmp, change) ==
    CASE cmp = "cmp_remove" -> cmp_remove(change)
      [] cmp = "cmp_new" -> cmp_new(change)
      [] cmp = "cmp_reinstall" -> cmp_reinstall(change)
      [] cmp = "cmp_downgrade" -> cmp_downgrade(change)
      [] cmp = "cmp_upgrade" -> cmp_upgrade(change)

RECURSIVE dump_packages(_, _)
\* dump_packages: the names listed under the group's heading, in array order.
\* The number of matches is the length of the list; nothing is printed when
\* it is empty.
dump_packages(changes, cmp) ==
    IF changes = <<>> THEN <<>>
    ELSE (IF cmp_call(cmp, Head(changes)) THEN <<dump_name(Head(changes))>> ELSE <<>>)
         \o dump_packages(Tail(changes), cmp)

DumpEvent(msg, names) == IF names = <<>> THEN <<>> ELSE << <<"dump", msg, names>> >>

\* print_change: the message printed for a change, or NULL when nothing is
\* printed (the function returns FALSE).
\* Variant of print_change_msg with the tests for a missing old and a
\* missing new package exchanged.
print_change_msg_swapped(database, change) ==
    LET oldpkg == change.old_pkg
        newpkg == change.new_pkg
    IN  IF newpkg = NULL THEN "Installing"
        ELSE IF oldpkg = NULL THEN "Purging"
        ELSE IF newpkg = oldpkg
        THEN IF change.reinstall
             THEN IF pkg_available(database, newpkg) THEN "Reinstalling"
                  ELSE "[APK unavailable, skipped] Reinstalling"
             ELSE IF change.old_repository_tag # change.new_repository_tag
             THEN "Updating pinning"
             ELSE NULL
        ELSE CASE apk_pkg_version_compare(newpkg, oldpkg) = APK_VERSION_LESS -> "Downgrading"
               [] apk_pkg_version_compare(newpkg, oldpkg) = APK_VERSION_EQUAL -> "Replacing"
               [] apk_pkg_version_compare(newpkg, oldpkg) = APK_VERSION_GREATER -> "Upgrading"

\* print_change, lines 56-87: the message for the kind of change, NULL
\* when the change is not reported.
print_change_msg(database, change) ==
    LET oldpkg == change.old_pkg
        newpkg == change.new_pkg
    IN  IF oldpkg = NULL THEN "Installing"
        ELSE IF newpkg = NULL THEN "Purging"
        ELSE IF newpkg = oldpkg
        THEN IF change.reinstall
             THEN IF pkg_available(database, newpkg) THEN "Reinstalling"
                  ELSE "[APK unavailable, skipped] Reinstalling"
             ELSE IF change.old_repository_tag # change.new_repository_tag
             THEN "Updating pinning"
             ELSE NULL
        ELSE CASE apk_pkg_version_compare(newpkg, oldpkg) = APK_VERSION_LESS -> "Downgrading"
               [] apk_pkg_version_compare(newpkg, oldpkg) = APK_VERSION_EQUAL -> "Replacing"
               [] apk_pkg_version_compare(newpkg, oldpkg) = APK_VERSION_GREATER -> "Upgrading"

\* The line print_change writes: status counter, message, name, tag and
\* either one version or "old -> new".
print_change_line(database, change, prog) ==
    LET oldpkg == change.old_pkg
        newpkg == change.new_pkg
        name == IF newpkg # NULL THEN PkgName[newpkg] ELSE PkgName[oldpkg]
        versions ==
            IF oldpkg = NULL THEN <<PkgVersion[newpkg]>>
            ELSE IF newpkg = NULL THEN <<PkgVersion[oldpkg]>>
            ELSE IF newpkg = oldpkg THEN <<PkgVersion[newpkg]>>
            ELSE <<PkgVersion[oldpkg], PkgVersion[newpkg]>>
    IN  <<"print_change", print_change_msg(database, change), name,
          change.new_repository_tag, versions,
          <<prog.total_changes_digits, prog.done.changes + 1, prog.total.changes>> >>

print_change(database, change) == print_change_msg(database, change) # NULL

\* Variant of old_pkg_broken that looks at broken_files only.
old_pkg_broken_files(ipkgs, change) ==
    /\ change.old_pkg # NULL
    /\ ipkgs[change.old_pkg].broken_files

\* Whether the old package of a change is recorded as broken.
old_pkg_broken(ipkgs, change) ==
    /\ change.old_pkg # NULL
    /\ (ipkgs[change.old_pkg].broken_files \/ ipkgs[change.old_pkg].broken_script)

\* Variant of change_errors in which r starts at 0 for every change.
change_errors_install_only(broken, install, outcome) ==
    IF install /\ outcome # "ok" THEN 1 ELSE 0

\* Variant of change_errors in which no change is an error.
change_errors_ignored(broken, install, outcome) == 0

\* Lines 368-380 and 384: what a change adds to the error count.  r starts
\* as the broken state of the old package and is overwritten by the result
\* of the install primitive when that is called.
change_errors(broken, install, outcome) ==
    IF install THEN (IF outcome # "ok" THEN 1 ELSE 0)
    ELSE (IF broken THEN 1 ELSE 0)

\* Variant of next_change in which a failed change ends the loop.
next_change_stop_on_error(i, r, n) == IF r # 0 THEN n + 1 ELSE i + 1

\* Line 367: foreach_array_item moves on to the next change, whatever r is.
next_change(i, r, n) == i + 1

\* Variant of needs_install that reinstalls whether or not the package is
\* available.
needs_install_unavailable(context, database, change) ==
    /\ APK_SIMULATE \notin context.flags
    /\ \/ change.old_pkg # change.new_pkg
       \/ change.reinstall

\* Variant of needs_install that does not test APK_SIMULATE.
needs_install_in_simulate(context, database, change) ==
    \/ change.old_pkg # change.new_pkg
    \/ (change.reinstall /\ pkg_available(database, change.new_pkg))

\* Whether the apply loop hands a printed change to the install primitive.
needs_install(context, database, change) ==
    /\ APK_SIMULATE \notin context.flags
    /\ \/ change.old_pkg # change.new_pkg
       \/ (change.reinstall /\ pkg_available(database, change.new_pkg))

\* apk_dbg: a debug line is printed from verbosity 2 on.
apk_dbg_prints(context) == context.verbosity >= 2

\* Variant of run_commit_hook in which a failed script never vetoes.
run_commit_hook_no_veto(context, type, file, script_ret) ==
    IF file[1] = ChDot
    THEN [ret |-> 0, exec |-> FALSE, skipmsg |-> FALSE, dbgmsg |-> FALSE]
    ELSE IF (context.flags \cap {APK_NO_SCRIPTS, APK_SIMULATE}) # {}
    THEN [ret |-> 0, exec |-> FALSE, skipmsg |-> FALSE, dbgmsg |-> FALSE]
    ELSE IF APK_NO_COMMIT_HOOKS \in context.flags
    THEN [ret |-> 0, exec |-> FALSE, skipmsg |-> TRUE, dbgmsg |-> FALSE]
    ELSE [ret |-> 0, exec |-> TRUE, skipmsg |-> FALSE,
          dbgmsg |-> apk_dbg_prints(context)]

\* Variant of run_commit_hook in which a failed script stops the walk
\* whatever the hook type.
run_commit_hook_always_veto(context, type, file, script_ret) ==
    IF file[1] = ChDot
    THEN [ret |-> 0, exec |-> FALSE, skipmsg |-> FALSE, dbgmsg |-> FALSE]
    ELSE IF (context.flags \cap {APK_NO_SCRIPTS, APK_SIMULATE}) # {}
    THEN [ret |-> 0, exec |-> FALSE, skipmsg |-> FALSE, dbgmsg |-> FALSE]
    ELSE IF APK_NO_COMMIT_HOOKS \in context.flags
    THEN [ret |-> 0, exec |-> FALSE, skipmsg |-> TRUE, dbgmsg |-> FALSE]
    ELSE [ret |-> IF script_ret < 0 THEN -2 ELSE 0,
          exec |-> TRUE, skipmsg |-> FALSE, dbgmsg |-> apk_dbg_prints(context)]

\* run_commit_hook: what the callback does for one directory entry, given
\* the exit status the script would have.  ret is the callback's return
\* value, exec tells whether apk_db_run_script is called, skipmsg whether
\* "Skipping:" is printed, dbgmsg whether "Executing:" is (line 257).
run_commit_hook(context, type, file, script_ret) ==
    IF file[1] = ChDot
    THEN [ret |-> 0, exec |-> FALSE, skipmsg |-> FALSE, dbgmsg |-> FALSE]
    ELSE IF (context.flags \cap {APK_NO_SCRIPTS, APK_SIMULATE}) # {}
    THEN [ret |-> 0, exec |-> FALSE, skipmsg |-> FALSE, dbgmsg |-> FALSE]
    ELSE IF APK_NO_COMMIT_HOOKS \in context.flags
    THEN [ret |-> 0, exec |-> FALSE, skipmsg |-> TRUE, dbgmsg |-> FALSE]
    ELSE [ret |-> IF script_ret < 0 /\ type = PRE_COMMIT_HOOK THEN -2 ELSE 0,
          exec |-> TRUE, skipmsg |-> FALSE, dbgmsg |-> apk_dbg_prints(context)]

\* ------------------------------------------------- external collaborators

\* apk_db_check_world: the number of world dependencies whose repository
\* tag has no repository configured; 0 when the override is set.
apk_db_check_world(context, deps) ==
    IF context.force_broken_world THEN 0
    ELSE Cardinality({k \in 1..Len(deps) :
            /\ deps[k].repository_tag # 0
            /\ TagAllowedRepos[deps[k].repository_tag] = {}})

\* pkg->ipkg.  A package that is not installed has no record: present is
\* FALSE and the other fields mean nothing.
NoIpkg == [present |-> FALSE, broken_files |-> FALSE, broken_script |-> FALSE,
           repository_tag |-> 0, pending_triggers |-> <<>>]
FreshIpkg == [NoIpkg EXCEPT !.present = TRUE]

\* Variant of world_check_fails that ignores the result of the check.
world_check_skipped(context, deps) == FALSE

\* Lines 294 and 876: the commit is refused when the world check reports a
\* problem.
world_check_fails(context, deps) == apk_db_check_world(context, deps) # 0

InstallOutcomes == {"ok", "fail_unpack", "fail_script"}

\* apk_db_install_pkg: the installed records after the call.  "ok": the old
\* record is destroyed and the new package has a clean record.
\* "fail_unpack": the new package is left without a record, the old one
\* untouched.  "fail_script": the switch happened but a package script
\* failed, which is recorded in the new (or, for a removal, old) record.
apk_db_install_pkg(ipkgs, oldpkg, newpkg, outcome) ==
    LET purged == IF oldpkg # NULL /\ oldpkg # newpkg /\ newpkg # NULL
                  THEN [ipkgs EXCEPT ![oldpkg] = NoIpkg] ELSE ipkgs
        kept == IF newpkg # NULL /\ ipkgs[newpkg].present
                THEN ipkgs[newpkg].repository_tag ELSE 0
    IN  CASE outcome = "ok" ->
                IF newpkg = NULL THEN [ipkgs EXCEPT ![oldpkg] = NoIpkg]
                ELSE [purged EXCEPT ![newpkg] = [FreshIpkg EXCEPT !.repository_tag = kept]]
          [] outcome = "fail_unpack" ->
                IF newpkg = NULL THEN ipkgs
                ELSE [ipkgs EXCEPT ![newpkg] = NoIpkg]
          [] outcome = "fail_script" ->
                IF newpkg = NULL
                THEN [ipkgs EXCEPT ![oldpkg] = [@ EXCEPT !.broken_script = TRUE]]
                ELSE [purged EXCEPT ![newpkg] =
                        [FreshIpkg EXCEPT !.repository_tag = kept, !.broken_script = TRUE]]

\* ------------------------------------------------------------ input sets

Flags == {APK_SIMULATE, APK_INTERACTIVE, APK_NO_SCRIPTS, APK_NO_COMMIT_HOOKS}

Context(f, v, force) == [flags |-> f, verbosity |-> v, force_broken_world |-> force]

\* The contexts a commit runs in: every combination of the flags at the
\* default verbosity, the higher verbosities with and without the
\* interactive flag, and the broken-world override.
Contexts ==
    {Context(f, 1, FALSE) : f \in SUBSET Flags}
        \cup {Context(f, v, FALSE) : f \in {{}, {APK_INTERACTIVE}}, v \in {2, 3}}
        \cup {Context({}, 1, TRUE)}

Dep(n, t) == [name |-> n, conflict |-> FALSE, repository_tag |-> t]

\* db->world before the commit, and the target worlds handed to it (the
\* second one references the tag that has no repository).
OldWorld == <<Dep(NameUB, 0)>>
Worlds == {<<Dep(NameA, 0), Dep(NameLB, 1)>>, <<Dep(NameA, 0), Dep(NameLB, 2)>>}

\* Contents of etc/apk/commit_hooks.d, in listing order: "h1", ".h", "h2".
commit_hooks_d == << <<104, 49>>, <<ChDot, 104>>, <<104, 50>> >>

\* Script exit statuses as apk_db_run_script and apk_ipkg_run_script
\* report them.
ScriptResults == {0, -1}

\* What the terminal can deliver to fgetc: y, Y, newline, end of input, n,
\* and a space.
Answers == {ChLowerY, ChUpperY, ChNewline, EOF, 110, 32}

\* apk_solver_solve: 0 with a changeset, or the number of unsatisfied
\* constraints.
SolverResults == {0, 1, 2}

\* Installed databases the commit starts from: a2 is installed and sound,
\* B1 is installed, pinned to tag 1 and recorded as broken (in its files or
\* in its script), a3 and b1 are not installed.
InstalledDb(bf) ==
    [p \in Pkgs |->
        CASE p = "a2" -> FreshIpkg
          [] p = "B1" -> [FreshIpkg EXCEPT !.broken_files = bf, !.broken_script = ~bf,
                                           !.repository_tag = 1]
          [] OTHER -> NoIpkg]

\* The database with the broken script is run in the plain and in the
\* simulating context only.
StartStates ==
    {<<c, InstalledDb(TRUE)>> : c \in Contexts}
        \cup {<<Context(f, 1, FALSE), InstalledDb(FALSE)>> : f \in {{}, {APK_SIMULATE}}}

Chg(o, n, ri, ot, nt) ==
    [old_pkg |-> o, new_pkg |-> n, reinstall |-> ri,
     old_repository_tag |-> ot, new_repository_tag |-> nt]

\* The changes a solver can emit against these databases, one line per
\* name: old_pkg is the installed package of the name and
\* old_repository_tag its recorded tag.
ChangeUniverse ==
    { Chg("a2", NULL, FALSE, 0, 0), Chg("a2", "a2", FALSE, 0, 0),
      Chg("a2", "a2", FALSE, 0, 1), Chg("a2", "a2", TRUE, 0, 0),
      Chg("a2", "a3", FALSE, 0, 1),
      Chg("B1", NULL, FALSE, 1, 0), Chg("B1", "B1", FALSE, 1, 1),
      Chg("B1", "B1", FALSE, 1, 0), Chg("B1", "B1", TRUE, 1, 1),
      Chg(NULL, "b1", FALSE, 0, 1) }

\* Changesets: at most MaxChanges changes, at most one per name.
Changesets ==
    {s \in UNION {[1..k -> ChangeUniverse] : k \in 0..MaxChanges} :
        \A x, y \in 1..Len(s) : x # y => sort_name(s[x]) # sort_name(s[y])}

\* The changesets apk_solver_solve leaves behind.  A changeset it computed
\* is passed on to apk_solver_commit_changeset, which direct calls exercise
\* on every changeset, so the short ones are enough here.
SolverChangesets == {s \in Changesets : Len(s) <= 1}

\* What a caller can pass as the changeset: an array of changes, or a
\* changeset whose array was never set up.
ChangesetArgs ==
    {[changes |-> s, is_null |-> FALSE] : s \in Changesets}
        \cup {[changes |-> <<>>, is_null |-> TRUE]}

\* ------------------------------------------------------------------ state

VARIABLES
    ctx,        \* db->ctx: flags, verbosity, force_broken_world
    db,         \* struct apk_database: world, repositories, error counter
    ipkg,       \* pkg->ipkg of every package (NULL when not installed)
    changeset,  \* the changeset argument: its changes array, is_null when
                \* changeset->changes is the NULL pointer
    world,      \* the world argument
    pc,         \* position in apk_solver_commit / apk_solver_commit_changeset
    loc,        \* locals of apk_solver_commit_changeset
    hook,       \* directory walk of run_commit_hooks: type, next entry, ret
    trace,      \* the call of apk_solver_commit_changeset with its arguments,
                \* the calls made to the collaborators and the lines printed
    faults,     \* failures injected so far
    ret,        \* value returned, once the call is over
    visited,    \* history: indices of the changes the apply loop went through
    ipkg0       \* history: the installed records when the call was made

vars == <<ctx, db, ipkg, changeset, world, pc, loc, hook, trace, faults, ret,
          visited, ipkg0>>

\* db->installed.stats.files and .dirs: the packages of the fixture own no
\* files and no directories; bytes and packages are derived from the
\* installed records.
NoFilesInstalled == [files |-> 0, dirs |-> 0]

ZeroLoc == [done |-> ZeroStats, total |-> ZeroStats, total_changes_digits |-> 0,
            pkg |-> NULL, size_diff |-> 0, pkg_diff |-> 0, download_size |-> 0,
            r |-> 0, errors |-> 0, i |-> 0, trig_errors |-> 0]

Init ==
    /\ \E st \in StartStates : ctx = st[1] /\ ipkg = st[2]
    /\ db = [world |-> OldWorld, available_repos |-> {0, 1}, local_repos |-> {0},
             num_dir_update_errors |-> 0, performing_self_upgrade |-> FALSE,
             installed |-> [stats |-> NoFilesInstalled]]
    /\ changeset = [changes |-> <<>>, is_null |-> TRUE]
    /\ world = <<>>
    /\ pc = "idle"
    /\ loc = ZeroLoc
    /\ hook = [type |-> PRE_COMMIT_HOOK, i |-> 1, ret |-> 0]
    /\ trace = <<>>
    /\ faults = 0
    /\ ret = 0
    /\ visited = <<>>
    /\ ipkg0 = ipkg

\* Whether a collaborator may fail once more within the fault budget.
FaultCost(n) == faults + n <= MaxFaults

\* -------------------------------------------------------- apk_solver_commit

\* apk_solver_commit up to the call of the solver: the world check.
SolverCommit(w) ==
    /\ pc = "idle"
    /\ world' = w
    /\ IF world_check_fails(ctx, w)
       THEN /\ ret' = -1
            /\ pc' = "aborted"
            /\ trace' = Append(trace, <<"apk_err", "Not committing changes">>)
       ELSE /\ pc' = "solve"
            /\ UNCHANGED <<ret, trace>>
    /\ UNCHANGED <<ctx, db, ipkg, changeset, loc, hook, faults, visited, ipkg0>>

\* Variant of solver_succeeded that takes only a negative result for a
\* failure.
solver_succeeded_nonnegative(r) == r >= 0

\* Line 884: the solver found a solution.
solver_succeeded(r) == r = 0

\* apk_solver_solve returns sr and leaves cs in the changeset.  On success
\* apk_solver_commit_changeset is entered, its result is the result of
\* apk_solver_commit; on failure the error report is printed.
Solve(sr, cs) ==
    /\ pc = "solve"
    /\ changeset' = [changes |-> cs, is_null |-> FALSE]
    /\ loc' = [loc EXCEPT !.r = sr]
    /\ pc' = IF solver_succeeded(sr) THEN "start" ELSE "print_errors"
    /\ trace' = Append(trace, <<"apk_solver_solve", sr>>)
                \o (IF solver_succeeded(sr)
                    THEN << <<"apk_solver_commit_changeset", changeset', world>> >>
                    ELSE <<>>)
    /\ UNCHANGED <<ctx, db, ipkg, world, hook, faults, ret, visited, ipkg0>>

\* apk_solver_print_errors, then apk_solver_commit returns the solver's r.
SolverPrintErrors ==
    /\ pc = "print_errors"
    /\ trace' = trace \o << <<"apk_solver_print_errors", changeset, world>>,
                            <<"apk_err", "unable to select packages:">> >>
    /\ ret' = loc.r
    /\ pc' = "unsolved"
    /\ UNCHANGED <<ctx, db, ipkg, changeset, world, loc, hook, faults, visited, ipkg0>>

\* ---------------------------------------------- apk_solver_commit_changeset

\* A direct call of apk_solver_commit_changeset(db, changeset, world).
CommitChangeset(cs, w) ==
    /\ pc = "idle"
    /\ changeset' = cs
    /\ world' = w
    /\ pc' = "start"
    /\ trace' = Append(trace, <<"apk_solver_commit_changeset", cs, w>>)
    /\ UNCHANGED <<ctx, db, ipkg, loc, hook, faults, ret, visited, ipkg0>>

\* Lines 293-318: the world check, the empty-changeset shortcut and the
\* statistics of what needs to be done.
CountChanges ==
    /\ pc = "start"
    /\ IF world_check_fails(ctx, world)
       THEN /\ ret' = -1
            /\ pc' = "aborted"
            /\ trace' = Append(trace, <<"apk_err", "Not committing changes">>)
            /\ loc' = ZeroLoc
       ELSE IF changeset.is_null
       THEN /\ pc' = "all_done"
            /\ loc' = ZeroLoc
            /\ UNCHANGED <<ret, trace>>
       ELSE LET acc == count_loop(db, changeset.changes, 1, ZeroLoc)
            IN  /\ loc' = [acc EXCEPT !.total_changes_digits = calc_precision(acc.total.changes)]
                /\ pc' = "diff"
                /\ UNCHANGED <<ret, trace>>
    /\ UNCHANGED <<ctx, db, ipkg, changeset, world, hook, faults, visited, ipkg0>>

\* The lines the diff prints from the sorted copy, and the number of matches.
diff_report(context, sorted, l) ==
    LET removed == dump_packages(sorted, "cmp_remove")
        downgraded == dump_packages(sorted, "cmp_downgrade")
        r1 == Len(removed) + Len(downgraded)
        full == r1 # 0 \/ APK_INTERACTIVE \in context.flags \/ context.verbosity > 2
        new == dump_packages(sorted, "cmp_new")
        upgraded == dump_packages(sorted, "cmp_upgrade")
        reinstalled == dump_packages(sorted, "cmp_reinstall")
    IN  [r |-> IF full THEN r1 + Len(new) + Len(upgraded) + Len(reinstalled) ELSE r1,
         lines |->
            DumpEvent("The following packages will be REMOVED", removed)
            \o DumpEvent("The following packages will be DOWNGRADED", downgraded)
            \o (IF full
                THEN DumpEvent("The following NEW packages will be installed", new)
                     \o DumpEvent("The following packages will be upgraded", upgraded)
                     \o DumpEvent("The following packages will be reinstalled", reinstalled)
                     \o (IF l.download_size # 0
                         THEN << <<"apk_msg", "Need to download", l.download_size>> >>
                         ELSE <<>>)
                     \o << <<"apk_msg", "After this operation",
                             IF l.size_diff < 0 THEN -l.size_diff ELSE l.size_diff,
                             IF l.size_diff < 0 THEN "disk space will be freed"
                             ELSE "additional disk space will be used">> >>
                ELSE <<>>)]

\* Variant of sort_for_diff that sorts the changeset's own array.
sort_in_place(changes) ==
    [sorted |-> apk_array_qsort(changes), changes |-> apk_array_qsort(changes)]

\* Lines 324-326: the diff is printed from a copy of the changes, and the
\* copy is what gets sorted; the array of the changeset stays as it is.
sort_for_diff(changes) == [sorted |-> apk_array_qsort(changes), changes |-> changes]

\* run_commit_hooks: the walk over the hook directory starts at its first
\* entry.
run_commit_hooks(type) == [type |-> type, i |-> 1, ret |-> 0]

\* Variant of apk_dependency_array_copy that leaves the destination alone.
apk_dependency_array_keep(dst, src) == dst

\* apk_dependency_array_copy(&dst, src): dst afterwards.
apk_dependency_array_copy(dst, src) == src

\* Variant of prompt_needed that asks only when more than one package is
\* listed.
prompt_needed_many(context, r) == r > 1 /\ APK_INTERACTIVE \in context.flags

\* Line 354: the confirmation is asked for when the diff listed something
\* and the run is interactive.
prompt_needed(context, r) == r > 0 /\ APK_INTERACTIVE \in context.flags

\* Lines 320-356: print the diff from a sorted copy and decide whether to
\* ask for confirmation.
ShowDiff ==
    /\ pc = "diff"
    /\ IF (ctx.verbosity > 1 \/ APK_INTERACTIVE \in ctx.flags)
          /\ APK_SIMULATE \notin ctx.flags
       THEN LET arrays == sort_for_diff(changeset.changes)
                rep == diff_report(ctx, arrays.sorted, loc)
            IN  /\ loc' = [loc EXCEPT !.r = rep.r]
                /\ changeset' = [changeset EXCEPT !.changes = arrays.changes]
                /\ IF prompt_needed(ctx, rep.r)
                   THEN /\ trace' = trace \o rep.lines
                                    \o << <<"printf", "Do you want to continue [Y/n]? ">> >>
                        /\ pc' = "prompt"
                   ELSE /\ trace' = trace \o rep.lines
                        /\ pc' = "pre_hooks"
       ELSE /\ pc' = "pre_hooks"
            /\ UNCHANGED <<loc, trace, changeset>>
    /\ hook' = run_commit_hooks(PRE_COMMIT_HOOK)
    /\ UNCHANGED <<ctx, db, ipkg, world, faults, ret, visited, ipkg0>>

\* Variant of answer_continues in which only 'n' declines.
answer_continues_unless_n(c) == c # 110

\* Whether the answer read from the terminal lets the commit go on.
answer_continues(c) == ~(c # ChLowerY /\ c # ChUpperY /\ c # ChNewline /\ c # EOF)

\* Lines 357-359: read the answer.
Confirm(c) ==
    /\ pc = "prompt"
    /\ trace' = Append(trace, <<"fgetc", c>>)
    /\ loc' = [loc EXCEPT !.r = c]
    /\ IF answer_continues(c)
       THEN /\ pc' = "pre_hooks"
            /\ UNCHANGED ret
       ELSE /\ pc' = "aborted"
            /\ ret' = -1
    /\ UNCHANGED <<ctx, db, ipkg, changeset, world, hook, faults, visited, ipkg0>>

\* apk_dir_foreach_file calls run_commit_hook for the next directory entry;
\* the walk stops at the first entry for which the callback returns nonzero.
RunCommitHook(script_ret) ==
    /\ pc \in {"pre_hooks", "post_hooks"}
    /\ hook.ret = 0
    /\ hook.i <= Len(commit_hooks_d)
    /\ LET file == commit_hooks_d[hook.i]
           res == run_commit_hook(ctx, hook.type, file, script_ret)
       IN  /\ IF res.exec
              THEN /\ script_ret # 0 => FaultCost(1)
                   /\ faults' = faults + (IF script_ret # 0 THEN 1 ELSE 0)
                   /\ trace' = trace
                        \o (IF res.dbgmsg
                            THEN << <<"apk_dbg", "Executing:", file,
                                      commit_hook_str[hook.type + 1]>> >>
                            ELSE <<>>)
                        \o << <<"apk_db_run_script", file,
                                commit_hook_str[hook.type + 1], script_ret>> >>
              ELSE /\ script_ret = 0
                   /\ faults' = faults
                   /\ trace' = IF res.skipmsg
                               THEN Append(trace, <<"apk_msg", "Skipping:", file,
                                                    commit_hook_str[hook.type + 1]>>)
                               ELSE trace
           /\ hook' = [hook EXCEPT !.i = @ + 1, !.ret = res.ret]
    /\ UNCHANGED <<ctx, db, ipkg, changeset, world, pc, loc, ret, visited, ipkg0>>

\* Variant of HookWalkOver that lets the caller go on before the walk has
\* reached the end of the directory.
HookWalkOverAtOnce == TRUE

\* apk_dir_foreach_file, the directory walker run_commit_hooks hands the
\* callback to: the walk ends after the last entry, or at the first entry
\* for which the callback returns nonzero, and returns that value.
HookWalkOver == hook.ret # 0 \/ hook.i > Len(commit_hooks_d)

\* Lines 363-364: the result of the pre-commit walk.
PreCommitHooksDone ==
    /\ pc = "pre_hooks"
    /\ HookWalkOver
    /\ IF hook.ret = -2
       THEN /\ ret' = -1
            /\ pc' = "aborted"
            /\ UNCHANGED loc
       ELSE /\ pc' = "apply"
            /\ loc' = [loc EXCEPT !.i = 1]
            /\ UNCHANGED ret
    /\ UNCHANGED <<ctx, db, ipkg, changeset, world, hook, trace, faults, visited, ipkg0>>

\* Triggers apk_db_fire_triggers queues for an installed package.
TriggerList(p) == IF PkgName[p] = NameA THEN <<"/usr/lib", "/usr/share">> ELSE <<"/etc">>

\* One iteration of the "Go through changes" loop (lines 367-386).  outcome
\* and dir_errors are what the install primitive does if it is called: its
\* result, and the directory-update errors it adds to the database counter.
ApplyChange(outcome, dir_errors) ==
    /\ pc = "apply"
    /\ loc.i <= Len(changeset.changes)
    /\ LET change == changeset.changes[loc.i]
           printed == print_change(db, change)
           install == printed /\ needs_install(ctx, db, change)
           r1 == change_errors(old_pkg_broken(ipkg, change), install, outcome)
           ipkg1 == IF install
                    THEN apk_db_install_pkg(ipkg, change.old_pkg, change.new_pkg, outcome)
                    ELSE ipkg
           ipkg2 == IF printed /\ r1 = 0 /\ change.new_pkg # NULL
                       /\ ipkg1[change.new_pkg].present
                    THEN [ipkg1 EXCEPT ![change.new_pkg] =
                            [@ EXCEPT !.repository_tag = change.new_repository_tag]]
                    ELSE ipkg1
           cost == (IF outcome # "ok" THEN 1 ELSE 0) + dir_errors
       IN  /\ IF install THEN FaultCost(cost) ELSE cost = 0
           /\ faults' = faults + cost
           /\ ipkg' = ipkg2
           /\ db' = [db EXCEPT !.num_dir_update_errors = @ + dir_errors]
           /\ trace' = trace
                \o (IF printed
                    THEN << print_change_line(db, change, loc),
                            <<"apk_print_progress",
                              loc.done.bytes + loc.done.packages + 0,
                              loc.total.bytes + loc.total.packages>> >>
                    ELSE <<>>)
                \o (IF install
                    THEN << <<"apk_db_install_pkg", change.old_pkg, change.new_pkg, outcome>> >>
                    ELSE <<>>)
           /\ loc' = [loc EXCEPT !.r = r1,
                                 !.pkg = IF printed THEN change.new_pkg ELSE @,
                                 !.errors = @ + r1,
                                 !.done = count_change(change, @),
                                 !.i = next_change(@, r1, Len(changeset.changes))]
           /\ visited' = Append(visited, loc.i)
    /\ UNCHANGED <<ctx, changeset, world, pc, hook, ret, ipkg0>>

Installed(ipkgs) == {p \in Pkgs : ipkgs[p].present}

\* Lines 387-391 and the start of run_triggers: the final progress report,
\* the directory-update errors, and apk_db_fire_triggers, which queues the
\* pending triggers of the installed packages in T and returns their number.
ApplyDone(T) ==
    /\ pc = "apply"
    /\ loc.i > Len(changeset.changes)
    /\ T \subseteq Installed(ipkg)
    /\ ipkg' = [p \in Pkgs |->
                    IF p \in T THEN [ipkg[p] EXCEPT !.pending_triggers = TriggerList(p)]
                    ELSE ipkg[p]]
    /\ trace' = trace \o << <<"apk_print_progress",
                              loc.total.bytes + loc.total.packages,
                              loc.total.bytes + loc.total.packages>>,
                            <<"apk_db_fire_triggers", Cardinality(T), T>> >>
    /\ loc' = [loc EXCEPT !.errors = @ + db.num_dir_update_errors,
                          !.trig_errors = 0,
                          !.i = 1]
    /\ pc' = IF Cardinality(T) = 0 THEN "all_done" ELSE "triggers"
    /\ UNCHANGED <<ctx, db, changeset, world, hook, faults, ret, visited, ipkg0>>

\* Variant of pending_after_script that keeps the list of a failed script.
pending_kept_on_failure(list, script_ret) == IF script_ret # 0 THEN list ELSE <<>>

\* Lines 223-227: the pending list after the trigger script was run with
\* it; apk_string_array_free comes after the call whatever it returned.
pending_after_script(list, script_ret) == <<>>

\* One iteration of the loop of run_triggers (lines 216-228).
RunTrigger(script_ret) ==
    /\ pc = "triggers"
    /\ loc.i <= Len(changeset.changes)
    /\ LET pkg == changeset.changes[loc.i].new_pkg
           skip == \/ pkg = NULL
                   \/ ~ipkg[pkg].present
                   \/ Len(ipkg[pkg].pending_triggers) = 0
       IN  IF skip
           THEN /\ script_ret = 0
                /\ loc' = [loc EXCEPT !.i = @ + 1]
                /\ UNCHANGED <<ipkg, trace, faults>>
           ELSE /\ script_ret # 0 => FaultCost(1)
                /\ faults' = faults + (IF script_ret # 0 THEN 1 ELSE 0)
                /\ trace' = Append(trace,
                        <<"apk_ipkg_run_script", pkg,
                          Append(ipkg[pkg].pending_triggers, NULL), script_ret>>)
                /\ ipkg' = [ipkg EXCEPT ![pkg] = [@ EXCEPT !.pending_triggers =
                                        pending_after_script(@, script_ret)]]
                /\ loc' = [loc EXCEPT !.i = @ + 1,
                                      !.trig_errors = @ + (IF script_ret # 0 THEN 1 ELSE 0)]
    /\ UNCHANGED <<ctx, db, changeset, world, pc, hook, ret, visited, ipkg0>>

\* run_triggers returns; line 391 adds its errors.
TriggersDone ==
    /\ pc = "triggers"
    /\ loc.i > Len(changeset.changes)
    /\ loc' = [loc EXCEPT !.errors = @ + loc.trig_errors]
    /\ pc' = "all_done"
    /\ UNCHANGED <<ctx, db, ipkg, changeset, world, hook, trace, faults, ret, visited, ipkg0>>

\* Lines 394-396: the world is replaced, the configuration written, and the
\* post-commit walk started.  config_ret is the result of apk_db_write_config.
AllDone(config_ret) ==
    /\ pc = "all_done"
    /\ config_ret # 0 => FaultCost(1)
    /\ faults' = faults + (IF config_ret # 0 THEN 1 ELSE 0)
    /\ db' = [db EXCEPT !.world = apk_dependency_array_copy(@, world)]
    /\ trace' = trace \o << <<"apk_dependency_array_copy", world>>,
                            <<"apk_db_write_config", config_ret>> >>
    /\ loc' = [loc EXCEPT !.errors = @ + (IF config_ret # 0 THEN 1 ELSE 0)]
    /\ hook' = run_commit_hooks(POST_COMMIT_HOOK)
    /\ pc' = "post_hooks"
    /\ UNCHANGED <<ctx, ipkg, changeset, world, ret, visited, ipkg0>>

RECURSIVE SumInstalledSize(_)
SumInstalledSize(S) ==
    IF S = {} THEN 0
    ELSE LET p == CHOOSE x \in S : TRUE
         IN  PkgInstalledSize[p] + SumInstalledSize(S \ {p})

\* The summary line of lines 398-426: "OK:" or the error count with
\* "error;" for one error and "errors;" for more, then from verbosity 2 on
\* the packages, directories, files and MiB installed, and below that the
\* MiB and the packages.
summary_line(context, database, ipkgs, l) ==
    LET installed_bytes == SumInstalledSize(Installed(ipkgs))
            + (IF APK_SIMULATE \in context.flags THEN l.size_diff ELSE 0)
        installed_packages == Cardinality(Installed(ipkgs))
            + (IF APK_SIMULATE \in context.flags THEN l.pkg_diff ELSE 0)
        msg == IF l.errors # 0
               THEN <<l.errors, IF l.errors > 1 THEN "errors;" ELSE "error;">>
               ELSE <<"OK:">>
    IN  IF context.verbosity > 1
        THEN <<"apk_msg", msg, installed_packages, database.installed.stats.dirs,
               database.installed.stats.files, installed_bytes \div MiB>>
        ELSE <<"apk_msg", msg, installed_bytes \div MiB, installed_packages>>

\* Lines 396-427: the post-commit walk is over; print the summary and
\* return the error count.
CommitReturn ==
    /\ pc = "post_hooks"
    /\ HookWalkOver
    /\ trace' = IF db.performing_self_upgrade THEN trace
                ELSE Append(trace, summary_line(ctx, db, ipkg, loc))
    /\ ret' = loc.errors
    /\ pc' = "returned"
    /\ UNCHANGED <<ctx, db, ipkg, changeset, world, loc, hook, faults, visited, ipkg0>>

\* The packages apk_db_fire_triggers can queue triggers for: none, or every
\* installed package.
TriggerSets(ipkgs) == {{}, Installed(ipkgs)}

Next ==
    \/ pc = "idle" /\ \E w \in Worlds : SolverCommit(w)
    \/ pc = "solve" /\ \E sr \in SolverResults, cs \in SolverChangesets : Solve(sr, cs)
    \/ SolverPrintErrors
    \/ pc = "idle" /\ \E cs \in ChangesetArgs, w \in Worlds : CommitChangeset(cs, w)
    \/ CountChanges
    \/ ShowDiff
    \/ \E c \in Answers : Confirm(c)
    \/ \E sr \in ScriptResults : RunCommitHook(sr)
    \/ PreCommitHooksDone
    \/ \E o \in InstallOutcomes, d \in {0, 1} : ApplyChange(o, d)
    \/ \E T \in TriggerSets(ipkg) : ApplyDone(T)
    \/ \E sr \in ScriptResults : RunTrigger(sr)
    \/ TriggersDone
    \/ \E cr \in ScriptResults : AllDone(cr)
    \/ CommitReturn

Spec == Init /\ [][Next]_vars

\* ------------------------------------------- the statistics, step by step

\* A second specification runs only the "Count what needs to be done" loop
\* of apk_solver_commit_changeset (lines 303-318), one change per step, on
\* every changeset and for two settings of db->local_repos.
LocalRepoSets == {{0}, {1}}

StatsInit ==
    /\ ctx = Context({}, 1, FALSE)
    /\ ipkg = InstalledDb(TRUE)
    /\ \E lr \in LocalRepoSets :
            db = [world |-> OldWorld, available_repos |-> {0, 1}, local_repos |-> lr,
                  num_dir_update_errors |-> 0, performing_self_upgrade |-> FALSE,
                  installed |-> [stats |-> NoFilesInstalled]]
    /\ \E cs \in Changesets : changeset = [changes |-> cs, is_null |-> FALSE]
    /\ world = OldWorld
    /\ pc = "count"
    /\ loc = [ZeroLoc EXCEPT !.i = 1]
    /\ hook = [type |-> PRE_COMMIT_HOOK, i |-> 1, ret |-> 0]
    /\ trace = <<>>
    /\ faults = 0
    /\ ret = 0
    /\ visited = <<>>
    /\ ipkg0 = ipkg

\* Lines 304-317: the loop body for the next change.
StatsCountStep ==
    /\ pc = "count"
    /\ loc.i <= Len(changeset.changes)
    /\ loc' = [count_iteration(db, changeset.changes[loc.i], loc) EXCEPT !.i = loc.i + 1]
    /\ visited' = Append(visited, loc.i)
    /\ UNCHANGED <<ctx, db, ipkg, changeset, world, pc, hook, trace, faults, ret, ipkg0>>

\* Line 318: the loop is over.
StatsCountEnd ==
    /\ pc = "count"
    /\ loc.i > Len(changeset.changes)
    /\ loc' = [loc EXCEPT !.total_changes_digits = calc_precision(loc.total.changes)]
    /\ pc' = "counted"
    /\ UNCHANGED <<ctx, db, ipkg, changeset, world, hook, trace, faults, ret, visited, ipkg0>>

StatsNext == StatsCountStep \/ StatsCountEnd

StatsSpec == StatsInit /\ [][StatsNext]_vars

\* ------------------------------------------------- the diagnostic engine

\* apk_solver_print_errors and the helpers under it (lines 430-866) work on
\* the graph of names and packages.  They are modelled on a graph of their
\* own: four names and three packages, two of them versions of one name.
\* The graph is the input; the marks the engine leaves in it are the state.

\* Bits of state_int (lines 430-436).  The low bits, STATE_COUNT_MASK, hold
\* a counter, kept apart as the field count.
STATE_PRESENT == "STATE_PRESENT"
STATE_MISSING == "STATE_MISSING"
STATE_VIRTUAL_ONLY == "STATE_VIRTUAL_ONLY"
STATE_INSTALLIF == "STATE_INSTALLIF"

\* The atom of the empty version: a dependency or a provider without a
\* version carries it.
apk_atom_null == ""

DNames == {"x", "v", "p", "q"}
DPkgs == {"p-1", "p-2", "q-1"}

\* Order in which the packages were added to the database, which is the
\* order of every providers array.
DPkgOrder == <<"p-1", "p-2", "q-1">>

\* struct apk_dependency: name, version atom, conflict bit of the operator,
\* broken bit.
DDep(n, v, c) == [name |-> n, version |-> v, conflict |-> c, broken |-> FALSE]

apk_dep_conflict(d) == d.conflict

\* The package declarations of the graphs.  In the first family "p-2"
\* declares nothing, "p-1" and "q-1" declare what they provide ("v" without
\* version, with one, or twice) and what they depend on, and "q-1" may be
\* installed on condition that "p" is.  Three more families add: a second
\* package of "p" that depends on "x" and a "q-1" that provides "p"; a
\* "q-1" with a provider priority; install_if entries that are conflicts,
\* and cycles of depends, provides and install_if entries between "p-1" and
\* "q-1".  Every package is available from repository 1 and carries no
\* mark.
DDecls ==
    LET N(n) == DDep(n, apk_atom_null, FALSE)
        Not(n) == DDep(n, apk_atom_null, TRUE)
        V1 == DDep("v", "1", FALSE)
        Decl(prov1, dep1, iif1, dep2, provq, depq, iifq, prioq) ==
            [p \in DPkgs |->
                [name |-> IF p = "q-1" THEN "q" ELSE "p",
                 version |-> IF p = "p-2" THEN "2" ELSE "1",
                 provides |-> CASE p = "p-1" -> prov1 [] p = "q-1" -> provq [] OTHER -> <<>>,
                 depends |-> CASE p = "p-1" -> dep1 [] p = "q-1" -> depq [] OTHER -> dep2,
                 install_if |-> CASE p = "p-1" -> iif1 [] p = "q-1" -> iifq [] OTHER -> <<>>,
                 provider_priority |-> IF p = "q-1" THEN prioq ELSE 0,
                 uninstallable |-> FALSE, arch |-> "x86_64",
                 repos |-> {1}, layer |-> 0, filename_ndx |-> 0, ipkg |-> FALSE,
                 marked |-> FALSE, state_int |-> {}, foreach_genid |-> 0]]
        ProvidesChoices == { <<>>, <<N("v")>>, <<V1>>, <<V1, V1>> }
        Plain ==
            { Decl(prov1, dep1, <<>>, <<>>, provq, depq, iifq, 0) :
                prov1 \in ProvidesChoices,
                dep1 \in { <<>>, <<N("x")>>, <<N("v"), Not("q")>> },
                provq \in ProvidesChoices,
                depq \in { <<>>, <<N("x")>>, <<N("p")>> },
                iifq \in { <<>>, <<N("p")>> } }
        SecondPackage ==
            { Decl(<<>>, dep1, <<>>, <<N("x")>>, provq, depq, <<>>, 0) :
                dep1 \in { <<>>, <<N("x")>> },
                provq \in { <<>>, <<N("p")>> },
                depq \in { <<>>, <<N("x")>> } }
        Priority ==
            { Decl(prov1, dep1, <<>>, <<>>, provq, <<>>, iifq, 1) :
                prov1 \in { <<>>, <<N("v")>> },
                dep1 \in { <<>>, <<N("v"), Not("q")>> },
                provq \in { <<N("v")>>, <<V1>>, <<N("p")>> },
                iifq \in { <<>>, <<N("p")>> } }
        Cycles ==
            { Decl(prov1, deps[1], iif1, <<>>, provq, deps[2], iifq, 0) :
                prov1 \in { <<N("v")>>, <<N("q")>> },
                deps \in { << <<>>, <<>> >>, << <<N("q")>>, <<N("p")>> >> },
                iif1 \in { <<>>, <<N("q")>> },
                provq \in { <<>>, <<N("p")>> },
                iifq \in { <<Not("v")>>, <<N("p"), Not("x")>>, <<N("p"), Not("v")>> } }
    IN Plain \cup SecondPackage \cup Priority \cup Cycles

\* The database of names and packages built from the declarations, with
\* every mark clear, as the solver leaves it.
\*   name->providers: for every package in the order of addition, the
\*     package under its own name with its own version, then one entry per
\*     provides entry on the name, with the version of the entry;
\*   name->rdepends, name->rinstall_if: the names of the packages with a
\*     depends entry, an install_if entry, on the name, each name once.
\* genid is the counter behind apk_foreach_genid.  Three histories are
\* kept with the database: expanded, the packages discover_name went into,
\* in order, each with the state it was marked with, the name it was
\* reached through and the state asked for; iif_evals, the evaluations of
\* install_if lists by discover_reverse_iif, each with the entries whose
\* name was marked Present or InstallIf at the time; missing_calls, the
\* calls of analyze_missing_name with the names before and after.
DiagDb(pkgs) ==
    LET RECURSIVE SeqConcat(_)
        SeqConcat(ss) == IF ss = <<>> THEN <<>> ELSE Head(ss) \o SeqConcat(Tail(ss))
        RECURSIVE SeqUnique(_)
        SeqUnique(s) ==
            IF s = <<>> THEN <<>>
            ELSE LET r == SeqUnique(SubSeq(s, 1, Len(s) - 1))
                     e == s[Len(s)]
                 IN IF \E i \in 1..Len(r) : r[i] = e THEN r ELSE Append(r, e)
        providers(n) ==
            SeqConcat([i \in 1..Len(DPkgOrder) |->
                LET p == DPkgOrder[i]
                    IsN(d) == d.name = n
                    prov == SelectSeq(pkgs[p].provides, IsN)
                IN (IF pkgs[p].name = n
                    THEN <<[pkg |-> p, version |-> pkgs[p].version]>> ELSE <<>>)
                   \o [k \in 1..Len(prov) |-> [pkg |-> p, version |-> prov[k].version]]])
        rdepends(n) ==
            SeqUnique(SeqConcat([i \in 1..Len(DPkgOrder) |->
                LET p == DPkgOrder[i]
                IN IF \E k \in 1..Len(pkgs[p].depends) : pkgs[p].depends[k].name = n
                   THEN <<pkgs[p].name>> ELSE <<>>]))
        rinstall_if(n) ==
            SeqUnique(SeqConcat([i \in 1..Len(DPkgOrder) |->
                LET p == DPkgOrder[i]
                IN IF \E k \in 1..Len(pkgs[p].install_if) : pkgs[p].install_if[k].name = n
                   THEN <<pkgs[p].name>> ELSE <<>>]))
    IN [pkgs |-> pkgs,
        names |-> [n \in DNames |->
            [providers |-> providers(n), rdepends |-> rdepends(n),
             rinstall_if |-> rinstall_if(n),
             state_int |-> [bits |-> {}, count |-> 0]]],
        available_repos |-> {0, 1}, active_layers |-> {0}, arches |-> {"x86_64"},
        genid |-> 0, expanded |-> <<>>, iif_evals |-> <<>>, missing_calls |-> <<>>]

\* ------------------------------------------------------ discover (716-795)

\* is_name_concrete: the package carries the name itself, or provides it
\* with a version.
is_name_concrete(d, pkg, name) ==
    \/ d.pkgs[pkg].name = name
    \/ \E k \in 1..Len(d.pkgs[pkg].provides) :
            /\ d.pkgs[pkg].provides[k].name = name
            /\ d.pkgs[pkg].provides[k].version # apk_atom_null

\* Variant of provider_state that marks every provider with the state
\* asked for.
provider_state_as_asked(d, pkg, name, pkg_state) == pkg_state

\* Lines 762-766: the state a provider is marked with.
provider_state(d, pkg, name, pkg_state) ==
    IF /\ pkg_state \in {STATE_PRESENT, STATE_INSTALLIF}
       /\ d.pkgs[pkg].provider_priority = 0
       /\ ~is_name_concrete(d, pkg, name)
    THEN STATE_VIRTUAL_ONLY ELSE pkg_state

\* Lines 772-775: the state one provides entry passes to its name.
provides_dep_state(dep, state) ==
    IF state = STATE_INSTALLIF /\ dep.version = apk_atom_null
    THEN STATE_VIRTUAL_ONLY ELSE state

\* Lines 768-777: the marks of one expansion, on the package, on its name
\* and on the names it provides.
mark_package(d, pkg, state) ==
    LET provides == d.pkgs[pkg].provides
        RECURSIVE mark_provides(_, _)
        mark_provides(d0, k) ==
            IF k > Len(provides) THEN d0
            ELSE mark_provides(
                    [d0 EXCEPT !.names[provides[k].name].state_int.bits =
                                    @ \cup {provides_dep_state(provides[k], state)}],
                    k + 1)
    IN mark_provides(
            [d EXCEPT !.pkgs[pkg].state_int = @ \cup {state},
                      !.names[d.pkgs[pkg].name].state_int.bits = @ \cup {state}],
            1)

\* Variant of install_if_ok that wants every name of the list marked,
\* conflict or not.
install_if_ok_presence_only(d, pkg) ==
    \A k \in 1..Len(d.pkgs[pkg].install_if) :
        d.names[d.pkgs[pkg].install_if[k].name].state_int.bits
            \cap {STATE_PRESENT, STATE_INSTALLIF} # {}

\* Lines 726-735: whether every install_if condition of a package holds
\* against the marks.
install_if_ok(d, pkg) ==
    \A k \in 1..Len(d.pkgs[pkg].install_if) :
        LET c == d.pkgs[pkg].install_if[k]
        IN apk_dep_conflict(c) #
            (d.names[c.name].state_int.bits \cap {STATE_PRESENT, STATE_INSTALLIF} # {})

\* The names a package answers to: its own, then those it provides.
own_and_provided(d, pkg) ==
    <<d.pkgs[pkg].name>>
        \o [k \in 1..Len(d.pkgs[pkg].provides) |-> d.pkgs[pkg].provides[k].name]

RECURSIVE discover_name_from(_, _, _, _), discover_deps_from(_, _, _),
          discover_names(_, _, _, _), install_if_providers(_, _, _),
          discover_reverse_iif_from(_, _, _), discover_reverse_iifs(_, _, _)

\* discover_name from the i-th provider of the name on (the loop of lines
\* 761-784).
discover_name_from(d, name, pkg_state, i) ==
    IF i > Len(d.names[name].providers) THEN d
    ELSE LET pkg == d.names[name].providers[i].pkg
             state == provider_state(d, pkg, name, pkg_state)
         IN IF ~d.pkgs[pkg].marked \/ state \in d.pkgs[pkg].state_int
            THEN discover_name_from(d, name, pkg_state, i + 1)
            ELSE LET d1 == [mark_package(d, pkg, state) EXCEPT
                                !.expanded = Append(@, [pkg |-> pkg, state |-> state,
                                                        name |-> name, pkg_state |-> pkg_state])]
                     d2 == discover_deps_from(d1, d.pkgs[pkg].depends, 1)
                     d3 == IF state \in {STATE_PRESENT, STATE_INSTALLIF}
                           THEN discover_reverse_iifs(d2, own_and_provided(d, pkg), 1)
                           ELSE d2
                 IN discover_name_from(d3, name, pkg_state, i + 1)

\* discover_deps from the k-th entry on.
discover_deps_from(d, deps, k) ==
    IF k > Len(deps) THEN d
    ELSE discover_deps_from(
            IF apk_dep_conflict(deps[k]) THEN d
            ELSE discover_name_from(d, deps[k].name, STATE_PRESENT, 1),
            deps, k + 1)

\* discover_name with one state on every name of a list, from the k-th on.
discover_names(d, names, state, k) ==
    IF k > Len(names) THEN d
    ELSE discover_names(discover_name_from(d, names[k], state, 1), names, state, k + 1)

\* Lines 725-740: the providers of one name of name->rinstall_if, from
\* the i-th on.
install_if_providers(d, name0, i) ==
    IF i > Len(d.names[name0].providers) THEN d
    ELSE LET pkg == d.names[name0].providers[i].pkg
             ok == install_if_ok(d, pkg)
             d1 == [d EXCEPT !.iif_evals = Append(@,
                        [pkg |-> pkg, ok |-> ok,
                         met |-> {k \in 1..Len(d.pkgs[pkg].install_if) :
                                    d.names[d.pkgs[pkg].install_if[k].name].state_int.bits
                                        \cap {STATE_PRESENT, STATE_INSTALLIF} # {}}])]
         IN install_if_providers(
                IF ~d.pkgs[pkg].marked \/ Len(d.pkgs[pkg].install_if) = 0 THEN d
                ELSE IF ok
                THEN discover_names(d1, own_and_provided(d, pkg), STATE_INSTALLIF, 1)
                ELSE d1,
                name0, i + 1)

\* discover_reverse_iif from the j-th name of name->rinstall_if on.
discover_reverse_iif_from(d, name, j) ==
    IF j > Len(d.names[name].rinstall_if) THEN d
    ELSE discover_reverse_iif_from(
            install_if_providers(d, d.names[name].rinstall_if[j], 1), name, j + 1)

\* discover_reverse_iif on every name of a list, from the k-th on.
discover_reverse_iifs(d, names, k) ==
    IF k > Len(names) THEN d
    ELSE discover_reverse_iifs(discover_reverse_iif_from(d, names[k], 1), names, k + 1)

\* Variant of discover_name in which the marks set on packages are dropped
\* when the call returns.
discover_name_forgets_packages(d, name, pkg_state) ==
    [discover_name_from(d, name, pkg_state, 1) EXCEPT
        !.pkgs = [p \in DPkgs |-> [@[p] EXCEPT !.state_int = d.pkgs[p].state_int]]]

discover_name(d, name, pkg_state) == discover_name_from(d, name, pkg_state, 1)

\* Variant of discover_deps that clears the state marks of the packages
\* before it starts.
discover_deps_unmarking(d, deps) ==
    discover_deps_from(
        [d EXCEPT !.pkgs = [p \in DPkgs |-> [@[p] EXCEPT !.state_int = {}]]], deps, 1)

discover_deps(d, deps) == discover_deps_from(d, deps, 1)

\* ------------------------------------------------------- report (438-627)

\* struct print_state with the database it works on: label is <<>> for
\* the NULL pointer, x says whether an indented line is open, out collects
\* what is printed.
PrintState(d, world_arg) ==
    [d |-> d, world |-> world_arg, label |-> <<>>, num_labels |-> 0, match |-> "", x |-> FALSE,
     out |-> <<>>]

\* PKG_VER_FMT and DEP_FMT, as the parts they print.
PkgVer(ps, pkg) == <<ps.d.pkgs[pkg].name, ps.d.pkgs[pkg].version>>
DepText(dep) ==
    <<IF apk_dep_conflict(dep) THEN "!" ELSE "", dep.name,
      IF dep.version = apk_atom_null THEN "" ELSE "=", dep.version>>

\* A printed word: the package, the dependency and the plain text that make
\* it up, <<>> or "" for a part it does not have.
Word(pkg, dep, text) == [pkg |-> pkg, dep |-> dep, text |-> text]

\* apk_print_indented and apk_print_indented_fmt: one more word on the
\* open line.
apk_print_indented(ps, word) == [ps EXCEPT !.out = Append(@, <<"word", word>>), !.x = TRUE]

\* Lines 447-455.
label_start(ps, text) ==
    LET ps1 == IF ps.label # <<>>
               THEN [ps EXCEPT !.out = Append(@, <<"label", ps.label>>),
                               !.label = <<>>, !.num_labels = @ + 1]
               ELSE ps
    IN IF ~ps1.x THEN [ps1 EXCEPT !.out = Append(@, <<"group", text>>), !.x = TRUE]
       ELSE ps1

\* Lines 456-459.
label_end(ps) ==
    IF ps.x THEN [ps EXCEPT !.out = Append(@, <<"end">>), !.x = FALSE] ELSE ps

\* Index of the cache among the repositories, and the default tag.
APK_REPOSITORY_CACHED == 0
APK_DEFAULT_REPOSITORY_TAG == 0

\* Names of the repository tags.
TagName == [t \in RepoTags |-> CASE t = 0 -> "" [] t = 1 -> "@edge" [] t = 2 -> "@none"]

\* apk_db_get_pinning_mask_repos: the repositories of the tags of a mask.
apk_db_get_pinning_mask_repos(tags) == UNION {TagAllowedRepos[t] : t \in tags}

\* Lines 461-489.  The last branch prints one word per tag that allows a
\* repository of the package.
print_pinning_errors(ps, pkg, tag) ==
    LET p == ps.d.pkgs[pkg]
        Masked(text) ==
            label_end(apk_print_indented(label_start(ps, "masked in:"),
                                         Word(<<>>, <<>>, text)))
        RECURSIVE masking_tags(_, _)
        masking_tags(ps0, i) ==
            IF i \notin RepoTags THEN ps0
            ELSE masking_tags(
                    IF p.repos \cap TagAllowedRepos[i] # {}
                    THEN apk_print_indented(label_start(ps0, "masked in:"),
                                            Word(<<>>, <<>>, TagName[i]))
                    ELSE ps0,
                    i + 1)
    IN IF p.ipkg THEN ps
       ELSE IF p.repos \cap ps.d.available_repos = {} THEN Masked("--no-network")
       ELSE IF p.layer \notin ps.d.active_layers THEN Masked("layer")
       ELSE IF p.repos = {APK_REPOSITORY_CACHED} /\ p.filename_ndx = 0 THEN Masked("cache")
       ELSE IF p.repos \cap
                apk_db_get_pinning_mask_repos({APK_DEFAULT_REPOSITORY_TAG, tag}) # {}
       THEN ps
       ELSE label_end(masking_tags(ps, 0))

\* Lines 497-502: the other marked packages of the same name, from the
\* i-th provider on.
RECURSIVE print_name_conflicts(_, _, _)
print_name_conflicts(ps, pkg, i) ==
    LET provs == ps.d.names[ps.d.pkgs[pkg].name].providers
    IN IF i > Len(provs) THEN ps
       ELSE print_name_conflicts(
                IF provs[i].pkg = pkg \/ ~ps.d.pkgs[provs[i].pkg].marked THEN ps
                ELSE apk_print_indented(label_start(ps, "conflicts:"),
                                        Word(PkgVer(ps, provs[i].pkg), <<>>, "")),
                pkg, i + 1)

\* Lines 503-521: for every provides entry of the package, the marked
\* providers of the name of the entry; once is the flag that lets the
\* entry of the package itself pass, one time per provides entry.
print_provides_conflicts(ps, pkg) ==
    LET provides == ps.d.pkgs[pkg].provides
        RECURSIVE providers_of(_, _, _, _)
        providers_of(ps0, dep, i, once) ==
            LET provs == ps0.d.names[dep.name].providers
            IN IF i > Len(provs) THEN ps0
               ELSE LET p == provs[i]
                    IN IF ~ps0.d.pkgs[p.pkg].marked
                       THEN providers_of(ps0, dep, i + 1, once)
                       ELSE IF dep.version = apk_atom_null /\ p.version = apk_atom_null
                       THEN providers_of(ps0, dep, i + 1, once)
                       ELSE IF once /\ p.pkg = pkg /\ p.version = dep.version
                       THEN providers_of(ps0, dep, i + 1, FALSE)
                       ELSE providers_of(
                                apk_print_indented(label_start(ps0, "conflicts:"),
                                                   Word(PkgVer(ps0, p.pkg), DepText(dep), "")),
                                dep, i + 1, once)
        RECURSIVE entries(_, _)
        entries(ps0, k) ==
            IF k > Len(provides) THEN ps0
            ELSE entries(providers_of(ps0, provides[k], 1, TRUE), k + 1)
    IN entries(ps, 1)

\* Lines 491-524.
print_conflicts(ps, pkg) ==
    label_end(print_provides_conflicts(print_name_conflicts(ps, pkg, 1), pkg))

\* ------------------------------------------- satisfies and breaks (526-587)

APK_DEP_SATISFIES == "APK_DEP_SATISFIES"
APK_DEP_CONFLICTS == "APK_DEP_CONFLICTS"

\* apk_foreach_genid: the next generation.
apk_foreach_genid(ps) == [ps EXCEPT !.d.genid = @ + 1]

\* apk_dep_analyze: what a package means to a dependency, by its own name
\* and version or by its first provides entry on the name of the
\* dependency.  A provider meets a dependency without version unless it is
\* a conflict, and one with a version when the versions are equal.
apk_dep_analyze(ps, dep, pkg) ==
    LET p == ps.d.pkgs[pkg]
        IsName(e) == e.name = dep.name
        prov == SelectSeq(p.provides, IsName)
        is_provided(version) ==
            IF dep.version = apk_atom_null THEN ~apk_dep_conflict(dep)
            ELSE IF version = apk_atom_null THEN apk_dep_conflict(dep)
            ELSE (version = dep.version) # apk_dep_conflict(dep)
        Verdict(version) ==
            IF is_provided(version) THEN APK_DEP_SATISFIES ELSE APK_DEP_CONFLICTS
    IN IF dep.name = p.name THEN Verdict(p.version)
       ELSE IF prov # <<>> THEN Verdict(prov[1].version)
       ELSE "APK_DEP_IRRELEVANT"

\* Lines 572-588, with print_mdeps (553-570).
\*   matching(pkg0, deps): apk_pkg_foreach_matching_dependency, the entries
\*     of deps whose analysis against pkg is match, with the package they
\*     belong to (<<>> for the world);
\*   rev: the marked packages apk_pkg_foreach_reverse_dependency visits,
\*     the providers of the names that depend on a name of pkg.
\* print_mdeps prints its words in the order of a qsort by package and
\* operator, which leaves ties in any order: they are printed as one set.
print_deps(ps, pkg, match) ==
    LET label == IF match = APK_DEP_SATISFIES THEN "satisfies:" ELSE "breaks:"
        matching(ps0, pkg0, deps) ==
            { Word(pkg0, DepText(deps[k]), IF pkg0 = <<>> THEN "world" ELSE "") :
                k \in {j \in 1..Len(deps) : apk_dep_analyze(ps0, deps[j], pkg) = match} }
        print_mdeps(ps0, deps) ==
            IF deps = {} THEN ps0
            ELSE [label_start(ps0, label) EXCEPT !.out = Append(@, <<"words", deps>>)]
        names == own_and_provided(ps.d, pkg)
        rev == { p0 \in DPkgs :
                    /\ ps.d.pkgs[p0].marked
                    /\ \E k \in 1..Len(names) :
                        \E j \in 1..Len(ps.d.names[names[k]].rdepends) :
                            LET name0 == ps.d.names[names[k]].rdepends[j]
                            IN \E i \in 1..Len(ps.d.names[name0].providers) :
                                    ps.d.names[name0].providers[i].pkg = p0 }
        ps1 == apk_foreach_genid([ps EXCEPT !.match = match])
        ps2 == print_mdeps(ps1, matching(ps1, <<>>, ps1.world))
        ps3 == apk_foreach_genid(ps2)
        ps4 == [ps3 EXCEPT !.d.pkgs = [p \in DPkgs |->
                    IF p \in rev THEN [@[p] EXCEPT !.foreach_genid = ps3.d.genid]
                    ELSE @[p]]]
        ps5 == print_mdeps(ps4, UNION { matching(ps4, PkgVer(ps4, p0), ps4.d.pkgs[p0].depends) :
                                        p0 \in rev })
    IN label_end(ps5)

\* Lines 584-594.
print_broken_deps(ps, deps, label) ==
    LET RECURSIVE from(_, _)
        from(ps0, k) ==
            IF k > Len(deps) THEN label_end(ps0)
            ELSE from(IF deps[k].broken
                      THEN apk_print_indented(label_start(ps0, label),
                                              Word(<<>>, DepText(deps[k]), ""))
                      ELSE ps0,
                      k + 1)
    IN from(ps, 1)

\* Lines 596-627.  apk_db_arch_compatible holds for an architecture of
\* db->arches.
analyze_package(ps, pkg, tag) ==
    LET p == ps.d.pkgs[pkg]
        ps0 == [ps EXCEPT !.label = PkgVer(ps, pkg)]
        u1 == label_end(apk_print_indented(label_start(ps0, "error:"),
                                           Word(<<>>, <<>>, "uninstallable")))
        u2 == IF p.arch \notin ps.d.arches
              THEN label_end(apk_print_indented(label_start(u1, "arch:"),
                                                Word(<<>>, <<>>, p.arch)))
              ELSE u1
        u3 == print_broken_deps(
                print_broken_deps(print_broken_deps(u2, p.depends, "depends:"),
                                  p.provides, "provides:"),
                p.install_if, "install_if:")
        ps1 == IF p.uninstallable THEN u3 ELSE ps0
        ps2 == print_deps(print_conflicts(print_pinning_errors(ps1, pkg, tag), pkg),
                          pkg, APK_DEP_CONFLICTS)
    IN IF ps2.label = <<>> THEN print_deps(ps2, pkg, APK_DEP_SATISFIES) ELSE ps2

\* ------------------------------------------------- missing names (629-711)

\* Lines 646-647: one reference counted on the name of every provider.
RECURSIVE count_providers(_, _, _)
count_providers(ps, provs, i) ==
    IF i > Len(provs) THEN ps
    ELSE count_providers(
            [ps EXCEPT !.d.names[ps.d.pkgs[provs[i].pkg].name].state_int.count = @ + 1],
            provs, i + 1)

\* Lines 648-660: a name all of whose packages provide is printed as the
\* name, a package of another name as the package.
RECURSIVE print_providers(_, _, _)
print_providers(ps, provs, i) ==
    IF i > Len(provs) THEN ps
    ELSE LET name0 == ps.d.pkgs[provs[i].pkg].name
             refs == ps.d.names[name0].state_int.count
         IN print_providers(
                IF refs = Len(ps.d.names[name0].providers)
                THEN [apk_print_indented(ps, Word(<<>>, <<>>, name0)) EXCEPT
                        !.d.names[name0].state_int.count = 0]
                ELSE IF refs > 0
                THEN [apk_print_indented(ps, Word(PkgVer(ps, provs[i].pkg), <<>>, ""))
                        EXCEPT !.d.names[name0].state_int.count = @ - 1]
                ELSE ps,
                provs, i + 1)

\* Variant of label_missing_name in which printing a package on its own
\* does not take its reference back from the counter.
label_missing_name_refs_kept(ps, name) ==
    LET provs == ps.d.names[name].providers
        RECURSIVE printed(_, _)
        printed(ps0, i) ==
            IF i > Len(provs) THEN ps0
            ELSE LET name0 == ps0.d.pkgs[provs[i].pkg].name
                     refs == ps0.d.names[name0].state_int.count
                 IN printed(
                        IF refs = Len(ps0.d.names[name0].providers)
                        THEN [apk_print_indented(ps0, Word(<<>>, <<>>, name0)) EXCEPT
                                !.d.names[name0].state_int.count = 0]
                        ELSE IF refs > 0
                        THEN apk_print_indented(ps0, Word(PkgVer(ps0, provs[i].pkg), <<>>, ""))
                        ELSE ps0,
                        i + 1)
    IN IF Len(provs) # 0
       THEN LET ps1 == [ps EXCEPT !.label = <<name, "(virtual)">>]
                ps2 == label_end(apk_print_indented(
                            label_start(ps1, "note:"),
                            Word(<<>>, <<>>, "please select one of the 'provided by' packages explicitly")))
                ps3 == count_providers(label_start(ps2, "provided by:"), provs, 1)
            IN label_end(printed(ps3, 1))
       ELSE [ps EXCEPT !.label = <<name, "(no such package)">>]

\* Lines 637-664: the label of the name and, for a name with providers,
\* the note and the "provided by:" group.
label_missing_name(ps, name) ==
    LET provs == ps.d.names[name].providers
    IN IF Len(provs) # 0
       THEN LET ps1 == [ps EXCEPT !.label = <<name, "(virtual)">>]
                ps2 == label_end(apk_print_indented(
                            label_start(ps1, "note:"),
                            Word(<<>>, <<>>, "please select one of the 'provided by' packages explicitly")))
                ps3 == count_providers(label_start(ps2, "provided by:"), provs, 1)
            IN label_end(print_providers(ps3, provs, 1))
       ELSE [ps EXCEPT !.label = <<name, "(no such package)">>]

\* Lines 676-693: the providers of one name of name->rdepends, from the
\* i-th on.  The first marked provider not yet visited in this generation
\* is visited and ends the loop, whether or not it has an entry on the
\* name that is not a conflict: the iterator d0 is not NULL after its loop.
RECURSIVE print_requirers_of(_, _, _, _)
print_requirers_of(ps, name, name0, i) ==
    LET provs == ps.d.names[name0].providers
    IN IF i > Len(provs) THEN ps
       ELSE LET pkg0 == provs[i].pkg
                deps == ps.d.pkgs[pkg0].depends
                hits == {k \in 1..Len(deps) :
                            deps[k].name = name /\ ~apk_dep_conflict(deps[k])}
            IN IF ~ps.d.pkgs[pkg0].marked \/ ps.d.pkgs[pkg0].foreach_genid = ps.d.genid
               THEN print_requirers_of(ps, name, name0, i + 1)
               ELSE LET ps1 == [ps EXCEPT !.d.pkgs[pkg0].foreach_genid = ps.d.genid]
                    IN IF hits = {} THEN ps1
                       ELSE apk_print_indented(
                                ps1, Word(PkgVer(ps, pkg0),
                                          DepText(deps[CHOOSE k \in hits :
                                                        \A j \in hits : k <= j]), ""))

\* Lines 629-696: the label, then under "required by:" the entries of the
\* world on the name that are not conflicts (667-672) and, in a new
\* generation, the packages of the names of name->rdepends (673-694).
analyze_missing_name(ps, name) ==
    LET RECURSIVE world_requirers(_, _)
        world_requirers(ps0, k) ==
            IF k > Len(ps0.world) THEN ps0
            ELSE world_requirers(
                    IF ps0.world[k].name # name \/ apk_dep_conflict(ps0.world[k]) THEN ps0
                    ELSE apk_print_indented(ps0, Word(<<>>, DepText(ps0.world[k]), "world")),
                    k + 1)
        RECURSIVE package_requirers(_, _)
        package_requirers(ps0, j) ==
            IF j > Len(ps0.d.names[name].rdepends) THEN ps0
            ELSE package_requirers(
                    print_requirers_of(ps0, name, ps0.d.names[name].rdepends[j], 1), j + 1)
        ps1 == label_start(label_missing_name(ps, name), "required by:")
        ps2 == apk_foreach_genid(world_requirers(ps1, 1))
    IN label_end(package_requirers(ps2, 1))

\* Variant of name_is_analyzed in which a name is analyzed every time a
\* dependency on it is met.
name_is_analyzed_never(ps, name) == FALSE

\* Lines 706-707: a name that is present, installable on condition or
\* already reported is left alone.
name_is_analyzed(ps, name) ==
    ps.d.names[name].state_int.bits
        \cap {STATE_INSTALLIF, STATE_PRESENT, STATE_MISSING} # {}

\* Lines 698-711.
analyze_deps(ps, deps) ==
    LET RECURSIVE from(_, _)
        from(ps0, k) ==
            IF k > Len(deps) THEN ps0
            ELSE LET name0 == deps[k].name
                 IN from(IF apk_dep_conflict(deps[k]) \/ name_is_analyzed(ps0, name0)
                         THEN ps0
                         ELSE LET ps1 == [ps0 EXCEPT !.d.names[name0].state_int.bits =
                                                        @ \cup {STATE_MISSING}]
                                  ps2 == analyze_missing_name(ps1, name0)
                              IN [ps2 EXCEPT !.d.missing_calls = Append(@,
                                    [name |-> name0,
                                     before |-> ps1.d.names, after |-> ps2.d.names])],
                         k + 1)
    IN from(ps, 1)

\* --------------------------------------- apk_solver_print_errors (797-866)

\* Lines 843-846: the packages the changeset installs are marked.
RECURSIVE mark_changes(_, _, _)
mark_changes(d, changes, k) ==
    IF k > Len(changes) THEN d
    ELSE mark_changes(
            IF changes[k].new_pkg # NULL
            THEN [d EXCEPT !.pkgs[changes[k].new_pkg].marked = TRUE] ELSE d,
            changes, k + 1)

\* Lines 849-865: the report, on a database the names of which have been
\* discovered.
analyze_all(d, changes, world_arg) ==
    LET RECURSIVE analyze_changes(_, _)
        analyze_changes(ps, k) ==
            IF k > Len(changes) THEN ps
            ELSE analyze_changes(
                    IF changes[k].new_pkg = NULL THEN ps
                    ELSE analyze_deps(
                            analyze_package(ps, changes[k].new_pkg,
                                            changes[k].new_repository_tag),
                            ps.d.pkgs[changes[k].new_pkg].depends),
                    k + 1)
        ps0 == [PrintState(d, world_arg) EXCEPT
                    !.out = <<<<"apk_err", "unable to select packages:">>>>]
        ps1 == analyze_changes(analyze_deps(ps0, world_arg), 1)
    IN IF ps1.num_labels = 0
       THEN [ps1 EXCEPT !.out = Append(@, <<"line",
                "Huh? Error reporter did not find the broken constraints.">>)]
       ELSE ps1

\* ------------------------------------- the diagnostic engine, step by step

\* A third specification runs apk_solver_print_errors twice in a row on
\* one database, changeset and world, and calls discover_name on its own
\* on the marks the first pass has set.

\* Longest world handed to the diagnostic engine.
MaxWorld == 2

\* The worlds handed to it: a name nobody provides, asked for once or
\* twice; the virtual name; package names, with a conflict.
DiagWorlds ==
    LET WorldPool ==
            { <<DDep("x", apk_atom_null, FALSE)>>,
              <<DDep("x", apk_atom_null, FALSE), DDep("x", "1", FALSE)>>,
              <<DDep("v", apk_atom_null, FALSE)>>,
              <<DDep("p", apk_atom_null, FALSE), DDep("q", apk_atom_null, TRUE)>>,
              <<DDep("v", "1", FALSE), DDep("x", apk_atom_null, FALSE)>>,
              <<DDep("q", apk_atom_null, FALSE), DDep("v", apk_atom_null, FALSE),
                DDep("x", apk_atom_null, FALSE)>> }
    IN {w \in WorldPool : Len(w) <= MaxWorld}

\* The changesets of a solve that failed: installations of the packages
\* of the graph and one removal, no package both installed and removed.
DiagChangesets ==
    LET Universe ==
            {Chg(NULL, p, FALSE, 0, 0) : p \in DPkgs} \cup {Chg("q-1", NULL, FALSE, 0, 0)}
    IN {s \in UNION {[1..k -> Universe] : k \in 0..MaxChanges} :
            \A i, j \in 1..Len(s) : i < j =>
                /\ s[i] # s[j]
                /\ ~(s[i].old_pkg = "q-1" /\ s[j].new_pkg = "q-1")
                /\ ~(s[j].old_pkg = "q-1" /\ s[i].new_pkg = "q-1")}

DiagInit ==
    /\ ctx = Context({}, 1, FALSE)
    /\ ipkg = InstalledDb(TRUE)
    /\ \E decl \in DDecls : db = DiagDb(decl)
    /\ \E cs \in DiagChangesets : changeset = [changes |-> cs, is_null |-> FALSE]
    /\ world \in DiagWorlds
    /\ pc = "diag"
    /\ loc = [name |-> "", state |-> "", expanded |-> 0]
    /\ hook = [type |-> PRE_COMMIT_HOOK, i |-> 1, ret |-> 0]
    /\ trace = <<>>
    /\ faults = 0
    /\ ret = 0
    /\ visited = <<>>
    /\ ipkg0 = ipkg

\* Lines 843-846.
DiagMark ==
    /\ pc = "diag"
    /\ db' = mark_changes(db, changeset.changes, 1)
    /\ pc' = "marked"
    /\ UNCHANGED <<ctx, ipkg, changeset, world, loc, hook, trace, faults, ret, visited, ipkg0>>

\* Line 847.
DiagDiscover ==
    /\ pc = "marked"
    /\ db' = discover_deps(db, world)
    /\ pc' = "discovered"
    /\ UNCHANGED <<ctx, ipkg, changeset, world, loc, hook, trace, faults, ret, visited, ipkg0>>

\* Lines 849-865: the report of the pass is kept in trace.
DiagAnalyze ==
    /\ pc = "discovered"
    /\ LET ps == analyze_all(db, changeset.changes, world)
       IN /\ db' = ps.d
          /\ trace' = Append(trace, ps.out)
    /\ pc' = "reported"
    /\ UNCHANGED <<ctx, ipkg, changeset, world, loc, hook, faults, ret, visited, ipkg0>>

\* apk_solver_print_errors is called again, on everything as the first
\* call left it.
DiagAgain ==
    /\ pc = "reported"
    /\ Len(trace) < 2
    /\ pc' = "diag"
    /\ UNCHANGED <<ctx, db, ipkg, changeset, world, loc, hook, trace, faults, ret, visited, ipkg0>>

\* discover_name called on its own, on the marks of the first pass before
\* or after its discovery; loc keeps the arguments and the number of
\* packages expanded before the call.
DiscoverNameCall(name, state) ==
    /\ pc \in {"marked", "discovered"}
    /\ trace = <<>>
    /\ db' = discover_name(db, name, state)
    /\ loc' = [name |-> name, state |-> state, expanded |-> Len(db.expanded)]
    /\ pc' = "probed"
    /\ UNCHANGED <<ctx, ipkg, changeset, world, hook, trace, faults, ret, visited, ipkg0>>

DiagNext ==
    \/ DiagMark
    \/ DiagDiscover
    \/ DiagAnalyze
    \/ DiagAgain
    \/ \E name \in DNames, state \in {STATE_PRESENT, STATE_INSTALLIF} : DiscoverNameCall(name, state)

DiagSpec == DiagInit /\ [][DiagNext]_vars

\* ------------------------------------------------------------ observations

\* What a behaviour shows of the commit, read from the trace alone.
Events(kind) == {k \in 1..Len(trace) : trace[k][1] = kind}

InstallCalls == Events("apk_db_install_pkg")
FailedInstallCalls == {k \in InstallCalls : trace[k][4] # "ok"}
HookScripts(type) == {k \in Events("apk_db_run_script") : trace[k][3] = type}
FailedTriggerScripts == {k \in Events("apk_ipkg_run_script") : trace[k][4] # 0}
ConfigWriteFailed == \E k \in Events("apk_db_write_config") : trace[k][2] # 0

\* The changes apk_solver_commit_changeset was called with.
GivenChanges ==
    LET k == CHOOSE c \in Events("apk_solver_commit_changeset") : TRUE
    IN  trace[k][2].changes

InstallCalledFor(change) ==
    \E k \in InstallCalls : trace[k][2] = change.old_pkg /\ trace[k][3] = change.new_pkg

\* The place in the changeset of the change an install call was made for.
ChangeOfCall(k) ==
    CHOOSE j \in 1..Len(GivenChanges) :
        /\ GivenChanges[j].old_pkg = trace[k][2]
        /\ GivenChanges[j].new_pkg = trace[k][3]

\* The old package of a change was recorded as broken when the commit began.
BrokenAtCall(change) ==
    /\ change.old_pkg # NULL
    /\ (ipkg0[change.old_pkg].broken_files \/ ipkg0[change.old_pkg].broken_script)

\* Nothing of the database has been touched and no script has been run.
NoMutation ==
    /\ \A k \in 1..Len(trace) :
            trace[k][1] \notin {"apk_db_run_script", "apk_db_install_pkg",
                                "apk_db_fire_triggers", "apk_ipkg_run_script",
                                "apk_dependency_array_copy", "apk_db_write_config"}
    /\ ipkg = ipkg0
    /\ db.world = OldWorld
    /\ db.num_dir_update_errors = 0

\* No package has been touched: as NoMutation, but pre-commit scripts may
\* have run.
NoPackageMutation ==
    /\ \A k \in 1..Len(trace) :
            trace[k][1] \notin {"apk_db_install_pkg", "apk_db_fire_triggers",
                                "apk_ipkg_run_script", "apk_dependency_array_copy",
                                "apk_db_write_config"}
    /\ HookScripts("post-commit") = {}
    /\ ipkg = ipkg0
    /\ db.world = OldWorld

AfterApplyLoop == pc \in {"triggers", "all_done", "post_hooks", "returned"}

\* The errors a finished commit has to account for.
CountedErrors ==
    Cardinality(FailedInstallCalls)
    + Cardinality({j \in 1..Len(changeset.changes) :
                        /\ BrokenAtCall(changeset.changes[j])
                        /\ ~InstallCalledFor(changeset.changes[j])})
    + db.num_dir_update_errors
    + Cardinality(FailedTriggerScripts)
    + (IF ConfigWriteFailed THEN 1 ELSE 0)

\* ------------------------------------------------------------------ claims

\* C1: once the apply loop has started, every change of the changeset is
\* processed exactly once and in turn; a change whose install call fails
\* adds to the error counter and the loop still processes every later
\* change, so that after the loop all of them have been processed.
C1_ApplyLoopCompletes ==
    /\ visited = [k \in 1..Len(visited) |-> k]
    /\ pc = "apply" => Len(visited) = loc.i - 1
    /\ (pc = "apply" \/ AfterApplyLoop) => loc.errors >= Cardinality(FailedInstallCalls)
    /\ (AfterApplyLoop /\ ~changeset.is_null) => Len(visited) = Len(changeset.changes)

\* A commit has returned whose first change failed to install and whose
\* second change was processed all the same.
C1_Witness ==
    /\ pc = "returned"
    /\ Len(changeset.changes) = 2
    /\ visited = <<1, 2>>
    /\ \E k \in FailedInstallCalls : ChangeOfCall(k) = 1
    /\ ret >= 1

\* C2: the install primitive is called on changes in the order of the
\* changeset that was passed in, whatever the flags; printing the diff
\* leaves the array of the changeset as it was.
C2_AppliedInChangesetOrder ==
    Events("apk_solver_commit_changeset") # {} =>
        /\ changeset.changes = GivenChanges
        /\ \A k1, k2 \in InstallCalls :
                k1 < k2 => ChangeOfCall(k1) < ChangeOfCall(k2)

\* The diff was printed for a changeset that is not in display order, and
\* both its changes were installed.
C2_Witness ==
    /\ pc = "returned"
    /\ Events("dump") # {}
    /\ Len(changeset.changes) = 2
    /\ sort_change(changeset.changes[1], changeset.changes[2]) > 0
    /\ Cardinality(InstallCalls) = 2

\* C3: when apk_db_check_world fails, the commit stops with -1 and nothing
\* has been mutated: no hook script, no install call, no trigger, the
\* world of the database not replaced, the configuration not written.
C3_WorldCheckFailureAborts ==
    (pc # "idle" /\ apk_db_check_world(ctx, world) # 0) =>
        /\ pc \in {"start", "aborted"}
        /\ pc = "aborted" => ret = -1
        /\ NoMutation

\* A commit of a world that names an unconfigured tag has returned -1.
C3_Witness ==
    /\ pc = "aborted"
    /\ ret = -1
    /\ apk_db_check_world(ctx, world) # 0
    /\ \E k \in Events("apk_err") : trace[k][2] = "Not committing changes"

\* C4: when a pre-commit hook script fails, the commit is aborted with -1
\* before any package mutation: no install call, no trigger, the world not
\* replaced, the configuration not written, no post-commit hook.
C4_PreCommitFailureAborts ==
    (\E k \in HookScripts("pre-commit") : trace[k][4] < 0) =>
        /\ pc \in {"pre_hooks", "aborted"}
        /\ pc = "aborted" => ret = -1
        /\ NoPackageMutation
        /\ \A k \in HookScripts("pre-commit") : trace[k][4] < 0 => k = Len(trace)

\* A commit with changes to apply was aborted by its first pre-commit
\* script.
C4_Witness ==
    /\ pc = "aborted"
    /\ ret = -1
    /\ Len(changeset.changes) > 0
    /\ \E k \in HookScripts("pre-commit") : trace[k][4] < 0

\* C5 as stated: any answer to the prompt other than 'y', 'Y' or newline,
\* end of input included, leads to no mutation and to the result -1.
C5_AsStated ==
    (\E k \in Events("fgetc") : trace[k][2] \notin {ChLowerY, ChUpperY, ChNewline}) =>
        /\ NoMutation
        /\ pc \in {"aborted", "returned"} => (pc = "aborted" /\ ret = -1)

\* C5 amended: any answer to the prompt other than 'y', 'Y', newline or
\* end of input aborts the commit at once with -1 and with no mutation.
C5_DeclineAborts ==
    (\E k \in Events("fgetc") :
        trace[k][2] \notin {ChLowerY, ChUpperY, ChNewline, EOF}) =>
        /\ pc = "aborted"
        /\ ret = -1
        /\ NoMutation

\* The prompt was shown and answered with a space.
C5_Witness ==
    /\ pc = "aborted"
    /\ \E k \in Events("printf") : k + 1 \in Events("fgetc") /\ trace[k + 1][2] = 32
    /\ NoMutation

\* C6: a commit that was not aborted returns with the world of the
\* database equal to the target world and with the configuration write
\* attempted, whatever failed on the way.
C6_TargetWorldPersisted ==
    pc = "returned" =>
        /\ db.world = world
        /\ Events("apk_db_write_config") # {}
        /\ \E k \in Events("apk_dependency_array_copy") : trace[k][2] = world

\* A commit returned errors and the database still holds the target world.
C6_Witness ==
    /\ pc = "returned"
    /\ ret > 0
    /\ FailedInstallCalls # {}
    /\ db.world = world
    /\ db.world # OldWorld

\* C7 as stated: the returned count is 0 exactly when no install call
\* failed, no directory-update error was accumulated, no trigger script
\* failed and the configuration write succeeded.
C7_AsStated ==
    pc = "returned" =>
        (ret = 0 <=> /\ FailedInstallCalls = {}
                     /\ db.num_dir_update_errors = 0
                     /\ FailedTriggerScripts = {}
                     /\ ~ConfigWriteFailed)

\* C7 amended: the returned count is the number of failed install calls,
\* plus the changes whose old package was recorded as broken and for which
\* the install primitive was not called, plus the directory-update errors,
\* the failed trigger scripts and a failed configuration write; it is 0
\* exactly when all of these are.
C7_ReturnedErrorCount ==
    pc = "returned" => ret = CountedErrors

\* A commit returned 1 with nothing failed: the one error is a change left
\* alone whose old package is recorded as broken.
C7_Witness ==
    /\ pc = "returned"
    /\ ret = 1
    /\ FailedInstallCalls = {}
    /\ db.num_dir_update_errors = 0
    /\ FailedTriggerScripts = {}
    /\ ~ConfigWriteFailed
    /\ InstallCalls # {}

\* C8: in simulate mode the install primitive is never called and no
\* commit hook script is executed.
C8_SimulateMutatesNothing ==
    APK_SIMULATE \in ctx.flags =>
        /\ InstallCalls = {}
        /\ Events("apk_db_run_script") = {}
        /\ \A p \in Pkgs : ipkg[p].present = ipkg0[p].present

\* A simulated commit of two changes, one of them an upgrade, has returned.
C8_Witness ==
    /\ APK_SIMULATE \in ctx.flags
    /\ pc = "returned"
    /\ Len(changeset.changes) = 2
    /\ \E j \in 1..2 : /\ changeset.changes[j].old_pkg # NULL
                       /\ changeset.changes[j].new_pkg # NULL
                       /\ changeset.changes[j].old_pkg # changeset.changes[j].new_pkg

\* C9 as stated: in simulate mode the apply loop counts no error.
C9_AsStated ==
    (APK_SIMULATE \in ctx.flags /\ pc = "apply") => loc.errors = 0

\* C9 amended: in simulate mode a change adds 1 to the error count exactly
\* when its old package is recorded as having broken files or a broken
\* script, and 0 otherwise.
C9_SimulateCountsBrokenOnly ==
    (APK_SIMULATE \in ctx.flags /\ pc = "apply") =>
        loc.errors = Cardinality({j \in 1..Len(visited) :
                                    BrokenAtCall(changeset.changes[visited[j]])})

\* A simulated apply loop has processed a sound and a broken old package.
C9_Witness ==
    /\ APK_SIMULATE \in ctx.flags
    /\ pc = "apply"
    /\ Len(visited) = 2
    /\ loc.errors = 1
    /\ \E j \in 1..2 : /\ changeset.changes[j].old_pkg # NULL
                       /\ ~BrokenAtCall(changeset.changes[j])

\* C10: a commit that was not aborted runs the post-commit hook phase once
\* and to its end, after the world was persisted and the configuration
\* written, whatever errors came before; a failing post-commit script does
\* not change the returned error count.
C10_PostCommitPhase ==
    /\ \A k \in HookScripts("post-commit") :
            /\ \E j \in Events("apk_dependency_array_copy") : j < k
            /\ \E j \in Events("apk_db_write_config") : j < k
            /\ db.world = world
    /\ \A k1, k2 \in HookScripts("post-commit") : trace[k1][2] = trace[k2][2] => k1 = k2
    /\ pc = "returned" =>
            /\ hook.type = POST_COMMIT_HOOK
            /\ hook.i = Len(commit_hooks_d) + 1
            /\ (ctx.flags \cap {APK_NO_SCRIPTS, APK_SIMULATE, APK_NO_COMMIT_HOOKS} = {}) =>
                    \A f \in 1..Len(commit_hooks_d) :
                        commit_hooks_d[f][1] # ChDot =>
                            \E k \in HookScripts("post-commit") : trace[k][2] = commit_hooks_d[f]
            /\ ret = CountedErrors

\* A commit returned 0 although its first post-commit script failed, and
\* the later script was run.
C10_Witness ==
    /\ pc = "returned"
    /\ ret = 0
    /\ Len(changeset.changes) > 0
    /\ \E k \in HookScripts("post-commit") :
            /\ trace[k][4] < 0
            /\ \E k2 \in HookScripts("post-commit") : k2 > k

\* The packages apk_db_fire_triggers queued triggers for.
QueuedPkgs ==
    LET k == CHOOSE c \in Events("apk_db_fire_triggers") : TRUE
    IN  trace[k][3]

TriggerScriptsOf(p) == {k \in Events("apk_ipkg_run_script") : trace[k][2] = p}

\* p was flushed: one trigger script invocation with its whole list (and
\* the terminating NULL), and no pending trigger left.
Flushed(p) ==
    /\ Cardinality(TriggerScriptsOf(p)) = 1
    /\ \A k \in TriggerScriptsOf(p) : trace[k][3] = Append(TriggerList(p), NULL)
    /\ ipkg[p].pending_triggers = <<>>

NewPkgs == {changeset.changes[j].new_pkg : j \in 1..Len(changeset.changes)} \ {NULL}

\* The triggers have all been run, or the commit has returned.
AfterTriggers ==
    pc \in {"all_done", "returned"} /\ Events("apk_db_fire_triggers") # {}

\* C11 as stated: at the end of a commit every installed package that had
\* pending triggers has had one script invocation with its whole list and
\* has no pending trigger left.
C11_AsStated ==
    AfterTriggers => \A p \in QueuedPkgs : Flushed(p)

\* C11 amended: at the end of a commit every installed package that is the
\* new package of a change of the changeset and had pending triggers has
\* had exactly one trigger script invocation with its whole list, and has
\* no pending trigger left whether or not the script failed; no other
\* package has a trigger script run, and a package with pending triggers
\* that no change names as new package keeps its list; each failed
\* invocation adds one to the error count.
C11_ChangesetTriggersFlushed ==
    /\ AfterTriggers =>
            /\ \A p \in QueuedPkgs \cap NewPkgs : Flushed(p)
            /\ \A p \in Pkgs \ (QueuedPkgs \cap NewPkgs) : TriggerScriptsOf(p) = {}
            /\ \A p \in QueuedPkgs \ NewPkgs :
                    ipkg[p].pending_triggers = TriggerList(p)
            /\ loc.trig_errors = Cardinality(FailedTriggerScripts)
            /\ loc.errors = CountedErrors
    /\ \A k \in Events("apk_ipkg_run_script") : Cardinality(TriggerScriptsOf(trace[k][2])) = 1

\* A commit has returned after the trigger script of one of its packages
\* failed: the failure is counted and the list is gone.
C11_Witness ==
    /\ pc = "returned"
    /\ \E k \in FailedTriggerScripts :
            /\ Flushed(trace[k][2])
            /\ Len(trace[k][3]) = 3
    /\ ret = 1

\* A change that is invisible to the statistics.
NoOpChange(change) ==
    /\ change.old_pkg = change.new_pkg
    /\ ~change.reinstall
    /\ change.old_repository_tag = change.new_repository_tag

\* C12: count_change leaves bytes, packages and changes as they are for a
\* change with old_pkg = new_pkg, no reinstall and equal repository tags,
\* and adds exactly one to changes for every other change.
C12_CountChangeNoOp ==
    [][(pc = "count" /\ loc.i <= Len(changeset.changes)) =>
            IF NoOpChange(changeset.changes[loc.i])
            THEN loc'.total = loc.total
            ELSE loc'.total.changes = loc.total.changes + 1]_vars

\* A changeset of a no-op change and a pinning update was counted: one
\* change, one package, no bytes.
C12_Witness ==
    /\ pc = "counted"
    /\ Len(changeset.changes) = 2
    /\ NoOpChange(changeset.changes[1])
    /\ ~NoOpChange(changeset.changes[2])
    /\ changeset.changes[2].old_pkg = changeset.changes[2].new_pkg
    /\ loc.total = [bytes |-> 0, changes |-> 1, packages |-> 1]

\* The orders the changes of a changeset of n changes can be given in.
ChangeOrders(n) == {f \in [1..n -> 1..n] : \A x, y \in 1..n : f[x] = f[y] => x = y}

Permuted(changes, f) == [k \in 1..Len(changes) |-> changes[f[k]]]

PrecomputedStats(l) == <<l.total, l.size_diff, l.pkg_diff, l.download_size>>

\* C13: the statistics computed before the commit (total bytes, packages
\* and changes, size_diff, pkg_diff, download_size) are the same for every
\* permutation of the changes of the changeset.
C13_StatsPermutationInvariant ==
    pc = "counted" =>
        \A f \in ChangeOrders(Len(changeset.changes)) :
            PrecomputedStats(count_loop(db, Permuted(changeset.changes, f), 1, ZeroLoc))
                = PrecomputedStats(loc)

\* Two changes that both need a download and differ in every statistic
\* were counted.
C13_Witness ==
    /\ pc = "counted"
    /\ Len(changeset.changes) = 2
    /\ loc.download_size = PkgSize["a3"] + PkgSize["b1"]
    /\ loc.pkg_diff = 1
    /\ loc.total.changes = 2
    /\ changeset.changes[1].old_pkg = NULL

\* Changes that install a package under a name that had none.
FreshInstalls ==
    {j \in 1..Len(changeset.changes) :
        changeset.changes[j].old_pkg = NULL /\ changeset.changes[j].new_pkg # NULL}

\* The apply loop has gone through change j.
Applied(j) == \E v \in 1..Len(visited) : visited[v] = j

\* The lines print_change wrote for the package p as the new package of a
\* fresh install: message, name, one version.
InstallingLines(p) ==
    {k \in Events("print_change") :
        /\ trace[k][2] = "Installing"
        /\ trace[k][3] = PkgName[p]
        /\ trace[k][5] = <<PkgVersion[p]>>}

\* C14: a change with no old package and a new package is reported as
\* "Installing", with the name and the version of the new package;
\* outside simulate mode the install primitive is called exactly once for
\* it, with (NULL, new_pkg), right after the report; and a changeset of
\* this one change returns 0 when the call succeeds and nothing else
\* fails.  The reports and calls are counted while the apply loop runs,
\* when it is over and when the commit has returned.
C14_FreshInstall ==
    /\ pc \in {"apply", "all_done", "returned"} => \A j \in FreshInstalls :
        LET p == changeset.changes[j].new_pkg
            calls == {k \in InstallCalls : trace[k][3] = p}
        IN  /\ Cardinality(InstallingLines(p)) = (IF Applied(j) THEN 1 ELSE 0)
            /\ Cardinality(calls) =
                    (IF Applied(j) /\ APK_SIMULATE \notin ctx.flags THEN 1 ELSE 0)
            /\ \A k \in calls :
                    /\ trace[k][2] = NULL
                    /\ \E q \in InstallingLines(p) : q < k
    /\ (/\ pc = "returned"
        /\ Len(changeset.changes) = 1
        /\ FreshInstalls = {1}
        /\ FailedInstallCalls = {}
        /\ db.num_dir_update_errors = 0
        /\ FailedTriggerScripts = {}
        /\ ~ConfigWriteFailed) => ret = 0

\* The changeset of the one change "install b1" was committed: reported,
\* installed with (NULL, b1), and 0 returned.
C14_Witness ==
    /\ pc = "returned"
    /\ Len(changeset.changes) = 1
    /\ FreshInstalls = {1}
    /\ \E k \in InstallCalls : trace[k][2] = NULL /\ trace[k][3] = "b1" /\ trace[k][4] = "ok"
    /\ InstallingLines("b1") # {}
    /\ ipkg["b1"].present
    /\ ret = 0

\* The results apk_solver_solve reported a failure with.
SolverFailures == {trace[k][2] : k \in {e \in Events("apk_solver_solve") : trace[e][2] # 0}}

\* The error counts a commit that was computed and partially failed
\* returns within the bounds of the model.
PartialFailureCounts == 1..(MaxChanges + MaxFaults)

\* C15 as stated: after a solver failure the diagnostic engine is run and
\* the commit engine is not, nothing is mutated, and the status returned
\* is non-zero and is none of the error counts a partially failed commit
\* returns.
C15_AsStated ==
    SolverFailures # {} =>
        /\ pc \in {"print_errors", "unsolved"}
        /\ Events("apk_solver_commit_changeset") = {}
        /\ NoMutation
        /\ pc = "unsolved" =>
                /\ Events("apk_solver_print_errors") # {}
                /\ ret # 0
                /\ ret \notin PartialFailureCounts

\* C15 amended: after a solver failure the diagnostic engine is run and
\* the commit engine is not, nothing is mutated, and the status returned
\* is the non-zero result of the solver, passed on unchanged.
C15_SolverFailureReported ==
    SolverFailures # {} =>
        /\ pc \in {"print_errors", "unsolved"}
        /\ Events("apk_solver_commit_changeset") = {}
        /\ NoMutation
        /\ pc = "unsolved" =>
                /\ Events("apk_solver_print_errors") # {}
                /\ ret # 0
                /\ SolverFailures = {ret}

\* apk_solver_commit has returned the solver's 2 after the error report.
C15_Witness ==
    /\ pc = "unsolved"
    /\ ret = 2
    /\ SolverFailures = {2}
    /\ Events("apk_solver_print_errors") # {}
    /\ Len(changeset.changes) > 0

\* The confirmation prompts written so far.
Prompts == {k \in Events("printf") : trace[k][2] = "Do you want to continue [Y/n]? "}

\* A change the diff lists: removal, new install, replacement of one
\* package by another (downgrade, upgrade), or reinstall.
ListedChange(change) == change.old_pkg # change.new_pkg \/ change.reinstall

\* A change the apply loop reports: a listed one, or a pinning update.
VisibleChange(change) ==
    ListedChange(change) \/ change.old_repository_tag # change.new_repository_tag

InteractiveCommit ==
    /\ APK_INTERACTIVE \in ctx.flags
    /\ APK_SIMULATE \notin ctx.flags
    /\ pc \in {"prompt", "pre_hooks", "apply", "all_done", "returned", "aborted"}
    /\ apk_db_check_world(ctx, world) = 0

\* The prompt came before every hook script and install call, and nothing
\* of the installed records was written before it.
PromptCameFirst ==
    /\ Prompts # {}
    /\ \A k \in Events("apk_db_run_script") \cup InstallCalls : \E q \in Prompts : q < k
    /\ \A k \in Prompts : k + 1 \in Events("fgetc") \/ (k = Len(trace) /\ ipkg = ipkg0)

\* C20 as stated: an interactive commit outside simulate mode whose
\* changeset has a change the apply loop reports, a pinning update
\* included, asks for confirmation before the pre-commit hooks, before
\* any install call and before any repository_tag is written.
C20_AsStated ==
    (InteractiveCommit /\ \E j \in 1..Len(changeset.changes) :
                                VisibleChange(changeset.changes[j]))
        => PromptCameFirst

\* C20 amended: an interactive commit outside simulate mode whose
\* changeset has a change the diff lists (removal, downgrade, new install,
\* upgrade or replacement, reinstall) asks for confirmation before the
\* pre-commit hooks, before any install call and before any
\* repository_tag is written; pinning updates alone do not make it ask.
C20_PromptBeforeMutation ==
    /\ (InteractiveCommit /\ \E j \in 1..Len(changeset.changes) :
                                ListedChange(changeset.changes[j]))
            => PromptCameFirst
    /\ (InteractiveCommit /\ \A j \in 1..Len(changeset.changes) :
                                ~ListedChange(changeset.changes[j]))
            => Prompts = {}

\* An interactive commit of an upgrade was confirmed, ran a pre-commit
\* script and installed the package with its new repository tag.
C20_Witness ==
    /\ InteractiveCommit
    /\ pc = "returned"
    /\ Prompts # {}
    /\ HookScripts("pre-commit") # {}
    /\ \E k \in InstallCalls : trace[k][2] = "a2" /\ trace[k][3] = "a3" /\ trace[k][4] = "ok"
    /\ ipkg["a3"].present /\ ipkg["a3"].repository_tag = 1

\* ----------------------------------------------------------------- C16

\* C16: calling discover_name a second time directly after a call, on the
\* same name with the same state, leaves the marks of every name and of
\* every package as they are and expands no package again.
C16_DiscoverNameIdempotent ==
    pc = "probed" => discover_name(db, loc.name, loc.state) = db

\* A call that went into two packages or more has returned.
C16_Witness ==
    /\ pc = "probed"
    /\ Len(db.expanded) >= loc.expanded + 2

\* ----------------------------------------------------------------- C17

\* The report of the n-th pass.
Report(n) == trace[n]

FirstReportDone == pc = "reported" /\ Len(trace) = 1

\* The positions of the labels of a report that carry the given text.
LabelsOf(report, text) ==
    {i \in 1..Len(report) : report[i][1] = "label" /\ report[i][2] = text}

\* The section under the label at position i: what is printed up to the
\* next label.
SectionEnd(report, i) ==
    LET later == {j \in (i + 1)..Len(report) : report[j][1] = "label"}
    IN IF later = {} THEN Len(report)
       ELSE (CHOOSE j \in later : \A k \in later : j <= k) - 1

Section(report, i) == SubSeq(report, i + 1, SectionEnd(report, i))

\* The words of a section that stand in a group of the given heading.
GroupWords(section, heading) ==
    LET InGroup(k) ==
            /\ section[k][1] = "word"
            /\ \E g \in 1..(k - 1) :
                    /\ section[g] = <<"group", heading>>
                    /\ \A m \in (g + 1)..(k - 1) : section[m][1] = "word"
        at == {k \in 1..Len(section) : InGroup(k)}
    IN [pkg \in {section[k][2].pkg : k \in at} |->
            {section[k][2].dep : k \in {j \in at : section[j][2].pkg = pkg}}]

\* The provides entries of a package on a name.
ProvidesOn(pkg, name) ==
    {db.pkgs[pkg].provides[k] : k \in {j \in 1..Len(db.pkgs[pkg].provides) :
                                        db.pkgs[pkg].provides[j].name = name}}

ProvidesOnce(pkg, name) ==
    Cardinality({j \in 1..Len(db.pkgs[pkg].provides) :
                    db.pkgs[pkg].provides[j].name = name}) = 1

\* The packages listed under "conflicts:" in the section of a package of
\* the first report, each with the dependencies it is listed under.
ConflictsOf(pkg) ==
    LET at == LabelsOf(Report(1), <<db.pkgs[pkg].name, db.pkgs[pkg].version>>)
    IN IF at = {} THEN << >>
       ELSE GroupWords(Section(Report(1), CHOOSE i \in at : TRUE), "conflicts:")

\* Whether the section of pkg lists other as a conflict under a provides
\* entry on the name.
ListsUnder(pkg, other, name) ==
    /\ <<db.pkgs[other].name, db.pkgs[other].version>> \in DOMAIN ConflictsOf(pkg)
    /\ \E dep \in ConflictsOf(pkg)[<<db.pkgs[other].name, db.pkgs[other].version>>] :
            dep # <<>> /\ dep[2] = name

\* Two distinct marked packages that both provide the virtual name "v".
BothProvide(p1, p2) ==
    /\ p1 # p2
    /\ db.pkgs[p1].marked /\ db.pkgs[p2].marked
    /\ ProvidesOn(p1, "v") # {} /\ ProvidesOn(p2, "v") # {}

\* C17 as stated: any two distinct marked packages that both provide the
\* virtual name "v" are each listed in the section of the other under
\* "conflicts:", with a provides entry on "v", and a package that provides
\* the name once is never listed in its own section.  The code skips a
\* provider when the provides entry and the provider both carry no
\* version, so two packages that provide "v" without a version do not list
\* each other.
C17_AsStated ==
    FirstReportDone =>
        /\ \A p1, p2 \in DPkgs :
            BothProvide(p1, p2) => ListsUnder(p1, p2, "v") /\ ListsUnder(p2, p1, "v")
        /\ \A p1 \in DPkgs :
            db.pkgs[p1].marked /\ ProvidesOnce(p1, "v") => ~ListsUnder(p1, p1, "v")

\* ----------------------------------------------------------------- C18

\* The names some label of a report presents as missing, with the text
\* after the name.
MissingLabels(report) ==
    {report[i][2] : i \in {j \in 1..Len(report) :
        /\ report[j][1] = "label"
        /\ report[j][2][2] \in {"(no such package)", "(virtual)"}}}

\* The words printed for the entries of the world on a name that are not
\* conflicts, in the order of the world.
WorldWords(name) ==
    LET OnName(dep) == dep.name = name /\ ~apk_dep_conflict(dep)
        entries == SelectSeq(world, OnName)
    IN [k \in 1..Len(entries) |-> <<"word", Word(<<>>, DepText(entries[k]), "world")>>]

\* A name the world requires, that nothing provides and no package depends
\* on.
RequiredByWorldOnly(name) ==
    /\ \E k \in 1..Len(world) : world[k].name = name /\ ~apk_dep_conflict(world[k])
    /\ db.names[name].providers = <<>>
    /\ \A p \in DPkgs : \A k \in 1..Len(db.pkgs[p].depends) :
            db.pkgs[p].depends[k].name # name

\* C18: a name that a world dependency requires, that has no provider and
\* that no package depends on is reported once, under the label
\* "(no such package)", with a "required by:" group that holds the world
\* entries on the name and nothing else; and a name reported as missing
\* is labelled "(no such package)" exactly when it has no provider.
C18_NoSuchPackage ==
    FirstReportDone =>
        /\ \A name \in DNames :
            RequiredByWorldOnly(name) =>
                /\ LabelsOf(Report(1), <<name, "(virtual)">>) = {}
                /\ Cardinality(LabelsOf(Report(1), <<name, "(no such package)">>)) = 1
                /\ \A i \in LabelsOf(Report(1), <<name, "(no such package)">>) :
                        Section(Report(1), i) =
                            <<<<"group", "required by:">>>> \o WorldWords(name) \o <<<<"end">>>>
        /\ \A label \in MissingLabels(Report(1)) :
                (label[2] = "(no such package)") <=> (db.names[label[1]].providers = <<>>)

\* The first report presents "x", asked for twice by the world, as a name
\* without package, and a name with providers as virtual.
C18_Witness ==
    /\ FirstReportDone
    /\ RequiredByWorldOnly("x")
    /\ Len(WorldWords("x")) = 2
    /\ LabelsOf(Report(1), <<"x", "(no such package)">>) # {}
    /\ \E label \in MissingLabels(Report(1)) : label[2] = "(virtual)"

\* ----------------------------------------------------------------- C19

\* The claim as stated: the second pass prints what the first one printed.
C19_AsStated ==
    pc = "reported" /\ Len(trace) = 2 =>
        /\ Len(Report(2)) = Len(Report(1))
        /\ \A i \in 1..Len(Report(1)) :
                /\ Report(2)[i][1] = Report(1)[i][1]
                /\ Report(2)[i] = Report(1)[i]

\* Whether the install primitive is due for a change: simulate mode is off,
\* the change is not a no-op, and the package changes or is reinstalled
\* from an available repository.
InstallDue(change) ==
    /\ APK_SIMULATE \notin ctx.flags
    /\ ~NoOpChange(change)
    /\ \/ change.old_pkg # change.new_pkg
       \/ (change.reinstall /\ PkgRepos[change.new_pkg] \cap db.available_repos # {})

InstallCallsFor(change) ==
    {k \in InstallCalls : trace[k][2] = change.old_pkg /\ trace[k][3] = change.new_pkg}

\* What became of the change at place j: still pending, or skipped, applied
\* or failed ("Early" would be an install call for a change the loop has
\* not reached).
Outcome(j) ==
    IF j \notin {visited[v] : v \in 1..Len(visited)}
    THEN IF InstallCallsFor(changeset.changes[j]) = {} THEN "Pending" ELSE "Early"
    ELSE LET calls == InstallCallsFor(changeset.changes[j])
         IN  IF calls = {} THEN "Skipped"
             ELSE IF \A k \in calls : trace[k][4] = "ok" THEN "Applied"
             ELSE "Failed"

\* The outcome of every change of the changeset, as one state shows it.
ChangeOutcomes ==
    \A j \in 1..Len(changeset.changes) :
        LET change == changeset.changes[j]
            out == Outcome(j)
        IN  /\ IF InstallDue(change) /\ out # "Pending"
               THEN Cardinality(InstallCallsFor(change)) = 1
               ELSE out \in {"Pending", "Skipped"}
            /\ pc = "returned" => out # "Pending"
            /\ (/\ out # "Pending"
                /\ change.old_pkg = change.new_pkg
                /\ \/ (change.reinstall /\ ~pkg_available(db, change.new_pkg))
                   \/ ~change.reinstall)
               => out = "Skipped"

\* C21: a change leaves Pending when the apply loop processes it, and ends
\* as Skipped, Applied or Failed; the install primitive is called at most
\* once for it, and it is called iff simulate mode is off, the change is not
\* a no-op and either old_pkg # new_pkg or the change is a reinstall of a
\* package available in db->available_repos.  A pending change has had no
\* call; a reinstall of an unavailable package and a pinning-only update
\* are Skipped.  This holds in every
\* state of every behaviour.
C21_ChangeOutcome == []ChangeOutcomes

\* A commit has returned after a reinstall of the unavailable B1, which was
\* skipped, and a change of package whose install call failed.
C21_Witness ==
    /\ pc = "returned"
    /\ Len(changeset.changes) = 2
    /\ \E i, j \in 1..2 :
        /\ changeset.changes[i].old_pkg = "B1"
        /\ changeset.changes[i].new_pkg = "B1"
        /\ changeset.changes[i].reinstall
        /\ Outcome(i) = "Skipped"
        /\ Outcome(j) = "Failed"

\* The events of the trigger phase: apk_db_fire_triggers and the trigger
\* scripts.
TriggerPhase == Events("apk_db_fire_triggers") \cup Events("apk_ipkg_run_script")

\* The lines print_change wrote, one per visible change processed.
ChangeLines == Events("print_change")

\* The walk over the pre-commit hooks has come to its end.
PreCommitWalkFinished ==
    /\ hook.type = PRE_COMMIT_HOOK
    /\ (hook.ret # 0 \/ hook.i > Len(commit_hooks_d))

\* The order of the phases as one state shows it: what the position of the
\* commit allows to have happened, and the order of the events recorded.
PhasesOrdered ==
    /\ pc \in {"idle", "solve", "print_errors", "unsolved", "start", "diff",
               "prompt", "pre_hooks", "aborted"} =>
            /\ InstallCalls = {}
            /\ ChangeLines = {}
            /\ TriggerPhase = {}
            /\ Events("apk_dependency_array_copy") = {}
            /\ db.world = OldWorld
    /\ pc \in {"apply", "triggers"} =>
            /\ PreCommitWalkFinished
            /\ Events("apk_dependency_array_copy") = {}
            /\ Events("apk_db_write_config") = {}
            /\ db.world = OldWorld
    /\ pc = "apply" => TriggerPhase = {}
    /\ pc \in {"apply", "triggers", "all_done"} => HookScripts("post-commit") = {}
    /\ \A k \in InstallCalls \cup ChangeLines :
            /\ \A h \in HookScripts("pre-commit") : h < k
            /\ \A t \in TriggerPhase : k < t
    /\ Events("apk_ipkg_run_script") # {} => Len(visited) = Len(changeset.changes)
    /\ \A c \in Events("apk_dependency_array_copy") :
            /\ \A t \in TriggerPhase : t < c
            /\ \A w \in Events("apk_db_write_config") : c < w
    /\ \A w \in Events("apk_db_write_config") :
            \A h \in HookScripts("post-commit") : w < h
    /\ HookScripts("post-commit") # {} => Events("apk_db_write_config") # {}

\* C22: the phases of a commit come in a fixed order.  Every install call
\* comes after every pre-commit hook script and is made only once the walk
\* over the pre-commit hooks is finished; every trigger script comes after
\* the last change has been processed; db->world is replaced after every
\* event of the trigger phase; post-commit hook scripts run after the
\* configuration write.  This holds in every state of every behaviour.
C22_PhasesOrdered == []PhasesOrdered

\* A commit has returned that ran a pre-commit hook, installed a package,
\* ran a trigger script, replaced the world, wrote the configuration and
\* ran a post-commit hook.
C22_Witness ==
    /\ pc = "returned"
    /\ HookScripts("pre-commit") # {}
    /\ InstallCalls # {}
    /\ Events("apk_ipkg_run_script") # {}
    /\ db.world = world
    /\ Events("apk_db_write_config") # {}
    /\ HookScripts("post-commit") # {}

\* ----------------------------------------------------------------- C23

\* The packages the changeset has marked.
MarkedPkgs == {p \in DPkgs : db.pkgs[p].marked}

\* Whether the declarations hold a cycle of depends entries, of provides
\* entries and of install_if entries between "p-1" and "q-1".
CyclicGraph ==
    LET On(deps, n) == \E k \in 1..Len(deps) : deps[k].name = n /\ ~apk_dep_conflict(deps[k])
    IN /\ On(db.pkgs["p-1"].depends, "q") /\ On(db.pkgs["q-1"].depends, "p")
       /\ On(db.pkgs["p-1"].provides, "q") /\ On(db.pkgs["q-1"].provides, "p")
       /\ On(db.pkgs["p-1"].install_if, "q") /\ On(db.pkgs["q-1"].install_if, "p")

\* C23: discover_deps(world) terminates on every graph, cycles of depends,
\* provides and install_if entries included, and leaves a result; over all
\* calls on a database discover_name goes into a package at most once for
\* each of the states Present, InstallIf and VirtualOnly, and only into
\* marked packages.
C23_DiscoverTerminates ==
    /\ pc = "marked" =>
            Len(discover_deps(db, world).expanded) <= 3 * Cardinality(MarkedPkgs)
    /\ \A i, j \in 1..Len(db.expanded) :
            (db.expanded[i].pkg = db.expanded[j].pkg
                /\ db.expanded[i].state = db.expanded[j].state) => i = j
    /\ \A i \in 1..Len(db.expanded) :
            /\ db.expanded[i].pkg \in MarkedPkgs
            /\ db.expanded[i].state \in {STATE_PRESENT, STATE_INSTALLIF, STATE_VIRTUAL_ONLY}

\* discover_deps(world) has returned on a graph with a cycle of each kind,
\* after going into one package under two states.
C23_Witness ==
    /\ pc = "discovered"
    /\ CyclicGraph
    /\ \E i, j \in 1..Len(db.expanded) :
            /\ db.expanded[i].pkg = db.expanded[j].pkg
            /\ db.expanded[i].state # db.expanded[j].state

\* ----------------------------------------------------------------- C24

\* The package has no identity of its own under the name: no provider
\* priority, another name, and no provides entry on the name that carries a
\* version.
VirtualUnder(pkg, name) ==
    /\ db.pkgs[pkg].provider_priority = 0
    /\ db.pkgs[pkg].name # name
    /\ \A k \in 1..Len(db.pkgs[pkg].provides) :
            db.pkgs[pkg].provides[k].name = name =>
                db.pkgs[pkg].provides[k].version = apk_atom_null

\* The names whose reverse install_if edges an expansion re-evaluates: the
\* name of the package and the names it provides.
NamesOf(pkg) ==
    {db.pkgs[pkg].name}
        \cup {db.pkgs[pkg].provides[k].name : k \in 1..Len(db.pkgs[pkg].provides)}

\* Whether pkg is a provider of a name that stands in name->rinstall_if.
ReverseInstallIf(name, pkg) ==
    \E j \in 1..Len(db.names[name].rinstall_if) :
        LET name0 == db.names[name].rinstall_if[j]
        IN \E i \in 1..Len(db.names[name0].providers) :
                db.names[name0].providers[i].pkg = pkg

\* C24: discover_name is asked for Present or InstallIf; a marked provider
\* it goes into through name N is marked VirtualOnly iff its
\* provider_priority is zero, its own name is not N and it has no provides
\* entry on N with a version, and with the state asked for otherwise.  A
\* package without the marked bit never carries a state mark, and an
\* install_if list is evaluated only for a provider of a name that stands in
\* the rinstall_if of a name of a package that was marked Present or
\* InstallIf.
C24_EffectiveState ==
    /\ \A i \in 1..Len(db.expanded) :
            LET e == db.expanded[i]
            IN /\ e.pkg_state \in {STATE_PRESENT, STATE_INSTALLIF}
               /\ \E k \in 1..Len(db.names[e.name].providers) :
                        db.names[e.name].providers[k].pkg = e.pkg
               /\ e.state = (IF VirtualUnder(e.pkg, e.name) THEN STATE_VIRTUAL_ONLY
                             ELSE e.pkg_state)
               /\ e.state \in db.pkgs[e.pkg].state_int
    /\ \A p \in DPkgs : db.pkgs[p].state_int # {} => db.pkgs[p].marked
    /\ \A p \in DPkgs :
            db.pkgs[p].state_int = {db.expanded[i].state :
                                        i \in {j \in 1..Len(db.expanded) : db.expanded[j].pkg = p}}
    /\ \A k \in 1..Len(db.iif_evals) :
            \E i \in 1..Len(db.expanded) :
                /\ db.expanded[i].state \in {STATE_PRESENT, STATE_INSTALLIF}
                /\ \E n \in NamesOf(db.expanded[i].pkg) :
                        ReverseInstallIf(n, db.iif_evals[k].pkg)

\* discover_deps(world) has gone into "p-1" through "v" and marked it
\* VirtualOnly, and into "q-1", which has a provider priority, through a
\* name it provides without version and marked it Present.
C24_Witness ==
    /\ pc = "discovered"
    /\ \E i, j \in 1..Len(db.expanded) :
            /\ db.expanded[i].pkg = "p-1"
            /\ db.expanded[i].name = "v"
            /\ db.expanded[i].state = STATE_VIRTUAL_ONLY
            /\ db.expanded[j].pkg = "q-1"
            /\ db.expanded[j].name # "q"
            /\ db.pkgs["q-1"].provider_priority # 0
            /\ ~is_name_concrete(db, "q-1", db.expanded[j].name)
            /\ db.expanded[j].state = STATE_PRESENT

\* ----------------------------------------------------------------- C25

\* Whether a list of dependencies holds an entry on the name that is not a
\* conflict.
Requires(deps, name) ==
    \E k \in 1..Len(deps) : deps[k].name = name /\ ~apk_dep_conflict(deps[k])

\* C25: an install_if list that discover_reverse_iif evaluates belongs to a
\* marked package and is not empty, and the package qualifies iff every
\* entry that is not a conflict names a name marked Present or InstallIf
\* and every conflict entry names a name marked neither; a package that
\* qualifies is marked InstallIf, and outside a direct call of
\* discover_name a package is entered for InstallIf only through a name of
\* a package that qualified.  A package is entered for Present only through
\* a name that the world or an earlier expanded package requires by an
\* entry that is not a conflict, and a name is reported as missing only if
\* the world or a marked package requires it by such an entry.
C25_ConflictPolarity ==
    /\ \A k \in 1..Len(db.iif_evals) :
            LET e == db.iif_evals[k]
                iif == db.pkgs[e.pkg].install_if
            IN /\ db.pkgs[e.pkg].marked
               /\ Len(iif) # 0
               /\ e.ok <=> \A m \in 1..Len(iif) :
                                IF apk_dep_conflict(iif[m]) THEN m \notin e.met
                                ELSE m \in e.met
               /\ e.ok => STATE_INSTALLIF \in db.pkgs[e.pkg].state_int
    /\ pc # "probed" =>
            \A i \in 1..Len(db.expanded) :
                LET e == db.expanded[i]
                IN IF e.pkg_state = STATE_INSTALLIF
                   THEN \E k \in 1..Len(db.iif_evals) :
                            /\ db.iif_evals[k].ok
                            /\ e.name \in NamesOf(db.iif_evals[k].pkg)
                   ELSE \/ Requires(world, e.name)
                        \/ \E j \in 1..(i - 1) :
                                Requires(db.pkgs[db.expanded[j].pkg].depends, e.name)
    /\ \A k \in 1..Len(db.missing_calls) :
            \/ Requires(world, db.missing_calls[k].name)
            \/ \E p \in MarkedPkgs : Requires(db.pkgs[p].depends, db.missing_calls[k].name)

\* A report is done for a world with a conflict entry, whose name was not
\* handed to analyze_missing_name, after one install_if list qualified and
\* one with a conflict entry on a marked name did not.
C25_Witness ==
    /\ pc = "reported"
    /\ \E k \in 1..Len(world) :
            /\ apk_dep_conflict(world[k])
            /\ \A m \in 1..Len(db.missing_calls) : db.missing_calls[m].name # world[k].name
    /\ \E k \in 1..Len(db.iif_evals) : db.iif_evals[k].ok
    /\ \E k \in 1..Len(db.iif_evals) :
            LET e == db.iif_evals[k]
            IN /\ ~e.ok
               /\ \E m \in e.met : apk_dep_conflict(db.pkgs[e.pkg].install_if[m])

\* ----------------------------------------------------------------- C26

\* The words that name a package in the "required by:" group of a section,
\* in the order printed.
RequirerWords(section) ==
    LET heads == {g \in 1..Len(section) : section[g] = <<"group", "required by:">>}
        g == CHOOSE h \in heads : TRUE
        NamesPackage(item) == item[1] = "word" /\ item[2].pkg # <<>>
    IN IF heads = {} THEN <<>>
       ELSE SelectSeq(SubSeq(section, g + 1, Len(section)), NamesPackage)

\* The packages the sweep over name->rdepends is to print for a missing
\* name: for every name of rdepends in turn, the first provider that is
\* marked, was not printed for an earlier name and has an entry on the
\* missing name that is not a conflict.
ExpectedRequirers(name) ==
    LET rdeps == db.names[name].rdepends
        Candidate(pkg) ==
            db.pkgs[pkg].marked /\ Requires(db.pkgs[pkg].depends, name)
        RECURSIVE sweep(_, _)
        sweep(j, printed) ==
            IF j > Len(rdeps) THEN printed
            ELSE LET provs == db.names[rdeps[j]].providers
                     at == {i \in 1..Len(provs) :
                                /\ Candidate(provs[i].pkg)
                                /\ \A m \in 1..Len(printed) : printed[m] # provs[i].pkg}
                 IN sweep(j + 1,
                          IF at = {} THEN printed
                          ELSE Append(printed,
                                      provs[CHOOSE i \in at : \A k \in at : i <= k].pkg))
    IN sweep(1, <<>>)

\* The word printed for a package that requires the name: the package and
\* its first entry on the name that is not a conflict.
RequirerWord(pkg, name) ==
    LET deps == db.pkgs[pkg].depends
        hits == {k \in 1..Len(deps) : deps[k].name = name /\ ~apk_dep_conflict(deps[k])}
    IN <<"word", Word(<<db.pkgs[pkg].name, db.pkgs[pkg].version>>,
                      DepText(deps[CHOOSE k \in hits : \A j \in hits : k <= j]), "")>>

\* C26 as stated: under "required by:" of a missing name, for each name of
\* its reverse dependencies the first provider in provider order that is
\* marked, not yet visited and has an entry on the missing name that is
\* not a conflict is printed with that entry, at most one package per
\* reverse-dependency name and no package twice.  The code ends the sweep
\* of a reverse-dependency name at its first marked provider not yet
\* visited, whether or not that package has such an entry.
C26_AsStated ==
    FirstReportDone =>
        \A label \in MissingLabels(Report(1)) :
            \A i \in LabelsOf(Report(1), label) :
                LET expected == ExpectedRequirers(label[1])
                IN RequirerWords(Section(Report(1), i)) =
                        [k \in 1..Len(expected) |-> RequirerWord(expected[k], label[1])]

\* ----------------------------------------------------------------- C27

\* The words of the "provided by:" group of a section, in the order
\* printed.
ProviderWords(section) ==
    LET heads == {g \in 1..Len(section) : section[g] = <<"group", "provided by:">>}
        g == CHOOSE h \in heads : TRUE
        ends == {e \in (g + 1)..Len(section) : section[e] = <<"end">>}
    IN IF heads = {} THEN <<>>
       ELSE SubSeq(section, g + 1, (CHOOSE e \in ends : \A k \in ends : e <= k) - 1)

\* How many of the words are the given one.
Times(words, word) == Cardinality({k \in 1..Len(words) : words[k] = <<"word", word>>})

\* The packages of a name, and the packages among the providers of a name.
PackagesOf(name0) == {pkg \in DPkgs : db.pkgs[pkg].name = name0}
ProvidersOf(name) ==
    {db.names[name].providers[k].pkg : k \in 1..Len(db.names[name].providers)}

\* C27 as stated: under "provided by:" of a name, a name all of whose
\* packages are providers is printed once by name and none of its packages
\* is printed; of any other name that owns a provider, each package that
\* provides is printed once and the name is not.  The code compares the
\* number of provider entries the name owns with the length of the
\* provider list of that name, which also counts the packages of other
\* names that provide it and counts a package once per entry.
C27_AsStated ==
    FirstReportDone =>
        \A name \in DNames :
            \A i \in LabelsOf(Report(1), <<name, "(virtual)">>) :
                LET words == ProviderWords(Section(Report(1), i))
                    ByName(name0) == Word(<<>>, <<>>, name0)
                    ByPackage(pkg) ==
                        Word(<<db.pkgs[pkg].name, db.pkgs[pkg].version>>, <<>>, "")
                IN \A name0 \in {db.pkgs[pkg].name : pkg \in ProvidersOf(name)} :
                        IF PackagesOf(name0) \subseteq ProvidersOf(name)
                        THEN /\ Times(words, ByName(name0)) = 1
                             /\ \A pkg \in PackagesOf(name0) :
                                    Times(words, ByPackage(pkg)) = 0
                        ELSE /\ Times(words, ByName(name0)) = 0
                             /\ \A pkg \in PackagesOf(name0) \cap ProvidersOf(name) :
                                    Times(words, ByPackage(pkg)) = 1

\* ----------------------------------------------------------------- C28

\* Line 435: the bits of state_int that hold the counter.
STATE_COUNT_MASK == 65535

\* C28: the counter of every name is zero in every state, and before and
\* after every call of analyze_missing_name; the call leaves the bits
\* Present, Missing, VirtualOnly and InstallIf of every name as they were;
\* and no provider list is long enough for the counter to leave its
\* subfield.
C28_CounterTransient ==
    /\ \A name \in DNames :
            /\ db.names[name].state_int.count = 0
            /\ Len(db.names[name].providers) <= STATE_COUNT_MASK
    /\ \A k \in 1..Len(db.missing_calls) :
            \A name \in DNames :
                LET before == db.missing_calls[k].before[name].state_int
                    after == db.missing_calls[k].after[name].state_int
                IN /\ before.count = 0
                   /\ after.count = 0
                   /\ after.bits = before.bits

\* A report is done in which analyze_missing_name was called for a name
\* that one package provides twice and for which another name owns a
\* provider whose packages do not all provide.
C28_Witness ==
    /\ pc = "reported"
    /\ \E k \in 1..Len(db.missing_calls) :
            LET provs == db.names[db.missing_calls[k].name].providers
            IN \E i, j \in 1..Len(provs) : i < j /\ provs[i].pkg = provs[j].pkg
    /\ \E k \in 1..Len(db.missing_calls) :
            LET name == db.missing_calls[k].name
            IN \E name0 \in {db.pkgs[pkg].name : pkg \in ProvidersOf(name)} :
                    ~(PackagesOf(name0) \subseteq ProvidersOf(name))

\* ----------------------------------------------------------------- C29

\* The statistics of the changes the apply loop went through so far: the
\* sum of count_change over them.
DoneSoFar ==
    LET RECURSIVE sum(_)
        sum(k) == IF k = 0 THEN ZeroStats
                  ELSE count_change(changeset.changes[visited[k]], sum(k - 1))
    IN sum(Len(visited))

\* Whether statistics a do not exceed statistics b in any field.
StatsWithin(a, b) ==
    a.bytes <= b.bytes /\ a.packages <= b.packages /\ a.changes <= b.changes

\* The progress reports so far: the positions in the trace of the calls of
\* apk_print_progress, each with the amount done and the amount to do.
ProgressReports == Events("apk_print_progress")

AccountingConsistent ==
    /\ visited = [k \in 1..Len(visited) |-> k]
    /\ loc.done = DoneSoFar
    /\ StatsWithin(loc.done, loc.total)
    /\ \A k \in ProgressReports : trace[k][2] <= trace[k][3]
    /\ (pc = "apply" /\ loc.i > Len(changeset.changes)) \/ AfterApplyLoop
            => loc.done = loc.total

\* C29: in every state the done statistics are the sum of count_change
\* over the changes processed so far, the first k of the changeset; done
\* does not exceed total in bytes, packages or changes; no progress report
\* has more done than to do; and once the apply loop has ended done equals
\* total.
C29_ProgressAccounting == []AccountingConsistent

\* The apply loop has ended after two changes, one of them counted as an
\* error, with bytes and a removal in the totals.
C29_Witness ==
    /\ pc = "apply"
    /\ loc.i > Len(changeset.changes)
    /\ Len(visited) = 2
    /\ loc.errors > 0
    /\ loc.total.bytes > 0
    /\ \E k \in 1..2 : changeset.changes[k].new_pkg = NULL
    /\ loc.done = loc.total

\* ----------------------------------------------------------------- C30

\* What a step does to the repository_tag of the installed record of a
\* package, when the step is an iteration of the apply loop or any other
\* step.  The change of an iteration is visible when its line is printed,
\* and it fails when the install primitive is called and fails or, without
\* a call, when the old package is recorded as broken.
TagWrittenByVisibleSuccess ==
    \A p \in Pkgs :
        LET iteration == pc = "apply" /\ Len(visited') = Len(visited) + 1
            change == changeset.changes[loc.i]
            added == SubSeq(trace', Len(trace) + 1, Len(trace'))
            visible == \E k \in 1..Len(added) : added[k][1] = "print_change"
            calls == {k \in 1..Len(added) : added[k][1] = "apk_db_install_pkg"}
            failed == IF calls # {} THEN \E k \in calls : added[k][4] # "ok"
                      ELSE /\ change.old_pkg # NULL
                           /\ \/ ipkg[change.old_pkg].broken_files
                              \/ ipkg[change.old_pkg].broken_script
            written == /\ ipkg[p].present
                       /\ ipkg'[p].present
                       /\ ipkg'[p].repository_tag # ipkg[p].repository_tag
            created == ~ipkg[p].present /\ ipkg'[p].present
        IN /\ written =>
                /\ iteration
                /\ change.new_pkg = p
                /\ visible
                /\ ~failed
                /\ loc'.errors = loc.errors
                /\ ipkg'[p].repository_tag = change.new_repository_tag
           /\ created => iteration /\ change.new_pkg = p
           /\ (iteration /\ change.new_pkg = p /\ visible /\ ~failed /\ ipkg'[p].present)
                => ipkg'[p].repository_tag = change.new_repository_tag

\* C30: a step changes the repository_tag of an installed record only as
\* an iteration of the apply loop on a change that names the package as
\* new_pkg, is visible and completes without error, and then to the
\* new_repository_tag of the change; an iteration counted as an error and
\* every other step leave the tag of every record that stays as it was, and
\* a record appears only for the new_pkg of the change of the iteration.
C30_RepositoryTagFrame == [][TagWrittenByVisibleSuccess]_vars

\* The apply loop has ended after two changes: one gave the record of its
\* new package another tag, the other was counted as an error and left the
\* tag of the record of its new package different from its
\* new_repository_tag.
C30_Witness ==
    /\ pc = "apply"
    /\ loc.i > Len(changeset.changes)
    /\ Len(visited) = 2
    /\ loc.errors = 1
    /\ \E k \in 1..2 :
            LET change == changeset.changes[k]
            IN /\ change.new_pkg # NULL
               /\ ipkg0[change.new_pkg].present
               /\ ipkg[change.new_pkg].present
               /\ ipkg[change.new_pkg].repository_tag = change.new_repository_tag
               /\ ipkg0[change.new_pkg].repository_tag # change.new_repository_tag
    /\ \E k \in 1..2 :
            LET change == changeset.changes[k]
            IN /\ change.new_pkg # NULL
               /\ ipkg[change.new_pkg].present
               /\ ipkg[change.new_pkg].repository_tag # change.new_repository_tag
               /\ ipkg[change.new_pkg].repository_tag = ipkg0[change.new_pkg].repository_tag

====
